---- MODULE Spec2Model ----
(***************************************************************************)
(* Persistence and asset-lifecycle subsystem of the video diary:           *)
(*   - DatabaseServiceImpl (services/database.ts): schema setup and CRUD   *)
(*     over one shared SQLite connection;                                 *)
(*   - FileManager, processVideo, generateThumbnail, getMetadata           *)
(*     (utils/fileManager.ts, utils/videoProcessor.ts);                    *)
(*   - videoService (services/videoService.ts): the indexed metadata store;*)
(*   - the callers that compose them (add screen, recorder, stores, hook). *)
(*                                                                         *)
(* Specifications:                                                         *)
(*   SpecRepo   repository calls issued one after the other by a caller    *)
(*              that awaits each, across process restarts;                 *)
(*   SpecSetup  two callers of setup() interleaving at the await points;   *)
(*   SpecMemory the create-memory / delete-memory / playback paths over    *)
(*              the asset directories, step by step;                       *)
(*   SpecCache  FileManager.cleanupCache over bounded directory contents.  *)
(***************************************************************************)
EXTENDS Integers, Sequences, FiniteSets, TLC

VARIABLES
    db,             \* on-disk relational store: tables and rows
    snap,           \* the open transaction's BEGIN snapshot (open = FALSE when none)
    fk,             \* PRAGMA foreign_keys of the single shared connection
    isInitialized,  \* DatabaseServiceImpl._isInitialized
    initPromise,    \* DatabaseServiceImpl._initializationPromise (0 = null)
    promiseState,   \* state of each initialization promise ever created
    last,           \* SpecRepo: the repository call that just completed
    pc,             \* SpecSetup: per caller, the statement it is waiting on
    loc,            \* SpecSetup: per caller, its locals
    files,          \* asset directories: the files present, with sizes
    metaIdx,        \* metadata directory: the indexed records present
    clock,          \* Date.now()
    mem             \* SpecMemory: the orchestrating handler in progress

schemaVars == <<db, snap, fk, isInitialized, initPromise, promiseState>>
setupVars  == <<pc, loc>>
assetVars  == <<files, metaIdx, clock, mem>>
vars == <<db, snap, fk, isInitialized, initPromise, promiseState, last, pc, loc,
          files, metaIdx, clock, mem>>

----------------------------------------------------------------------------
(* Bounds of the model *)

\* number of distinct video ids a caller can supply or generateUUID can mint
MaxVideos == 2
\* largest trim offset (seconds) a caller supplies
MaxTime == 2

(* Program constants *)

CURRENT_DB_VERSION == 4

VideoIds == 1..MaxVideos

TableNames == {"db_version", "categories", "videos", "core_memories", "custom_memory_types"}

\* ids seeded by createInitialSchema
DefaultCategories == {"all", "friends", "family", "travel", "special"}

\* id of a category created by the user (handleCreateCategory mints a UUID)
CustomCategories == {"c1"}

\* "NULL" stands for SQL NULL / a JS null or undefined categoryId;
\* "default" is the id VideoRecorder passes, which names no category
CategoryInputs == {"all", "travel", "c1", "default", "NULL"}

\* categories a caller asks deleteCategory to delete
DeleteInputs == {"all", "travel", "c1"}

\* valid trim windows: 0 <= start < end <= MaxTime
Windows == {w \in (0..MaxTime) \X (0..MaxTime) : w[1] < w[2]}

\* the window the repository-level caller supplies (the whole clip)
RepoWindows == {w \in Windows : w[1] = 0 /\ w[2] = MaxTime}

\* the uri the image picker hands over: a file outside the asset directories
PickerUri == [dir |-> "picker", name |-> [lead |-> 0, uid |-> 0, ext |-> "mp4"]]

\* thumbnail reference used where the asset directories are not modelled
AnyThumb == [dir |-> "thumbnails", name |-> [lead |-> 0, uid |-> 1, ext |-> "jpg"]]

VideoEntry(id, uri, thumbnail, w, cat) ==
    [id |-> id, uri |-> uri, thumbnail |-> thumbnail,
     startTime |-> w[1], endTime |-> w[2], categoryId |-> cat]

----------------------------------------------------------------------------
(* The store *)

\* key: the categories table has the column `key`
EmptyDb ==
    [tables |-> {}, version |-> 0, key |-> FALSE, categories |-> {}, videos |-> {}, core |-> {}]

NoTxn == [open |-> FALSE, db |-> EmptyDb]

\* verifyDatabaseHealth: all five required tables are listed in sqlite_master
verifyDatabaseHealth(d) == TableNames \subseteq d.tables

\* the DROP TABLE IF EXISTS batch of resetDatabase / clearDatabase
DropAllTables(d) == EmptyDb

\* the statements of createInitialSchema between BEGIN and COMMIT
\* (CREATE TABLE IF NOT EXISTS, INSERT OR REPLACE version, INSERT OR IGNORE defaults)
SchemaStatements(d) ==
    [d EXCEPT !.tables = TableNames,
              !.version = CURRENT_DB_VERSION,
              !.key = IF "categories" \in d.tables THEN @ ELSE TRUE,
              !.categories = d.categories \cup DefaultCategories]

\* ALTER TABLE categories ADD COLUMN key TEXT (line 304): rejected when the
\* column is there ("duplicate column name") or the table is not
AlterAddKey(d) ==
    IF "categories" \in d.tables /\ ~d.key
    THEN [ok |-> TRUE, db |-> [d EXCEPT !.key = TRUE]]
    ELSE [ok |-> FALSE, db |-> d]

\* UPDATE db_version SET version = CURRENT_DB_VERSION (line 306)
UpdateVersion(d) ==
    IF "db_version" \in d.tables
    THEN [ok |-> TRUE, db |-> IF d.version # 0 THEN [d EXCEPT !.version = CURRENT_DB_VERSION]
                                              ELSE d]
    ELSE [ok |-> FALSE, db |-> d]

\* handleMigration lines 302-307, no transaction: ok is whether it returned, db
\* what it left
handleMigration(d) ==
    LET a == IF d.version < 2 THEN AlterAddKey(d) ELSE [ok |-> TRUE, db |-> d]
    IN  IF a.ok THEN UpdateVersion(a.db) ELSE a

VideoIdsOf(d) == {v.id : v \in d.videos}

----------------------------------------------------------------------------
(* SchemaManager, run to completion by one caller (no other call in flight) *)

\* a setup() that drops and recreates the schema on every call
setup_Reinitializes(d, init, prom) ==
    LET s == SchemaStatements(DropAllTables(d))
    IN  [db |-> s, isInitialized |-> TRUE, initPromise |-> 1, ok |-> TRUE, ran |-> TRUE]

\* DatabaseServiceImpl.setup(), every await taken in turn.  prom is
\* _initializationPromise (0 = null; a non-null promise of an earlier call has
\* settled).  Result: the store, the flags, whether the call returned normally
\* (ok) and whether the initialization body ran (ran; it then set PRAGMA
\* foreign_keys = ON).
setup(d, init, prom) ==
    LET healthy == verifyDatabaseHealth(d)
        \* lines 175-180: reset when unhealthy; resetDatabase clears the promise
        \* that line 169 has just stored
        afterReset == IF healthy THEN d ELSE DropAllTables(d)
        promAfter == IF healthy THEN 1 ELSE 0
        \* lines 183-197: create the schema, or migrate an older version
        versionRow == afterReset.version # 0
        needsCreate == "db_version" \notin afterReset.tables
        needsMigration == ~needsCreate /\ versionRow
                          /\ afterReset.version < CURRENT_DB_VERSION
        migrated == handleMigration(afterReset)
        created == IF needsCreate THEN SchemaStatements(afterReset)
                   ELSE IF needsMigration THEN migrated.db
                   ELSE afterReset
        bodyOk == /\ (~needsCreate => versionRow)
                  /\ (needsMigration => migrated.ok)
                  /\ verifyDatabaseHealth(created)
    IN  IF init /\ healthy
        THEN [db |-> d, isInitialized |-> TRUE, initPromise |-> prom, ok |-> TRUE, ran |-> FALSE]
        ELSE IF prom # 0 /\ healthy
        THEN [db |-> d, isInitialized |-> FALSE, initPromise |-> prom, ok |-> TRUE, ran |-> FALSE]
        ELSE IF bodyOk
        THEN [db |-> created, isInitialized |-> TRUE, initPromise |-> promAfter,
              ok |-> TRUE, ran |-> TRUE]
        ELSE [db |-> created, isInitialized |-> FALSE, initPromise |-> 0,
              ok |-> FALSE, ran |-> TRUE]

\* ensureSetup: setup(), then one more health check
ensureSetup(d, init, prom) ==
    LET s == setup(d, init, prom)
    IN  [s EXCEPT !.ok = s.ok /\ verifyDatabaseHealth(s.db)]

----------------------------------------------------------------------------
(* Repository statements on the store d; f is PRAGMA foreign_keys.         *)
(* Each yields [ok, db]: ok = FALSE is a rejected statement (SQLite error). *)

Stmt(ok, d) == [ok |-> ok, db |-> d]

\* FOREIGN KEY (categoryId) REFERENCES categories(id): enforced only when f
CategoryRefOk(d, f, cat) == f /\ cat # "NULL" => cat \in d.categories

\* FOREIGN KEY (videoId) REFERENCES videos(id): enforced only when f
VideoRefOk(d, f, vid) == f => vid \in VideoIdsOf(d)

\* INSERT INTO videos (...) VALUES (...)
InsertVideo(d, f, row) ==
    IF /\ "videos" \in d.tables
       /\ row.id \notin VideoIdsOf(d)
       /\ CategoryRefOk(d, f, row.categoryId)
    THEN Stmt(TRUE, [d EXCEPT !.videos = @ \cup {row}])
    ELSE Stmt(FALSE, d)

\* DELETE FROM videos WHERE id = ?   (ON DELETE CASCADE into core_memories when f)
DeleteVideoRow(d, f, id) ==
    IF "videos" \in d.tables
    THEN Stmt(TRUE, [d EXCEPT !.videos = {v \in @ : v.id # id},
                              !.core = IF f THEN @ \ {id} ELSE @])
    ELSE Stmt(FALSE, d)

\* UPDATE videos SET categoryId = ? WHERE <sel>
SetCategoryWhere(d, f, ids, cat) ==
    IF "videos" \notin d.tables
    THEN Stmt(FALSE, d)
    ELSE IF (\E v \in d.videos : v.id \in ids) /\ ~CategoryRefOk(d, f, cat)
    THEN Stmt(FALSE, d)
    ELSE Stmt(TRUE, [d EXCEPT !.videos =
                        {IF v.id \in ids THEN [v EXCEPT !.categoryId = cat] ELSE v : v \in @}])

\* DELETE FROM categories WHERE id = ?   (ON DELETE SET NULL on videos when f)
DeleteCategoryRow(d, f, id) ==
    IF "categories" \in d.tables
    THEN Stmt(TRUE, [d EXCEPT !.categories = @ \ {id},
                              !.videos = IF f
                                         THEN {IF v.categoryId = id
                                               THEN [v EXCEPT !.categoryId = "NULL"]
                                               ELSE v : v \in @}
                                         ELSE @])
    ELSE Stmt(FALSE, d)

\* INSERT INTO categories (...) VALUES (...)
InsertCategory(d, id) ==
    IF "categories" \in d.tables /\ id \notin d.categories
    THEN Stmt(TRUE, [d EXCEPT !.categories = @ \cup {id}])
    ELSE Stmt(FALSE, d)

\* INSERT OR REPLACE INTO core_memories (videoId, ...) VALUES (...)
InsertOrReplaceCoreMemory(d, f, vid) ==
    IF "core_memories" \in d.tables /\ VideoRefOk(d, f, vid)
    THEN Stmt(TRUE, [d EXCEPT !.core = @ \cup {vid}])
    ELSE Stmt(FALSE, d)

\* DELETE FROM core_memories WHERE videoId = ?
DeleteCoreMemoryRow(d, vid) ==
    IF "core_memories" \in d.tables
    THEN Stmt(TRUE, [d EXCEPT !.core = @ \ {vid}])
    ELSE Stmt(FALSE, d)

\* SELECT * FROM videos [WHERE categoryId = ?]  (getVideos, lines 335-340)
SelectVideos(d, categoryId) ==
    IF categoryId # "NULL" /\ categoryId # "all"
    THEN {v \in d.videos : v.categoryId = categoryId}
    ELSE d.videos

----------------------------------------------------------------------------
(* Repository methods, after their ensureSetup (if any).  Each yields       *)
(* [ok, db, ret]: ok = FALSE is an error thrown to the caller.              *)

Ret(ok, d, ret) == [ok |-> ok, db |-> d, ret |-> ret]

\* an addVideo that inserts under the id it was given
addVideo_KeepsId(d, f, video, fresh) ==
    LET ins == InsertVideo(d, f, [video EXCEPT !.categoryId = IF @ = "NULL" THEN "all" ELSE @])
    IN  IF ins.ok THEN Ret(TRUE, ins.db, video.id) ELSE Ret(FALSE, d, 0)

\* addVideo lines 350-388: BEGIN; SELECT id; INSERT; COMMIT, or ROLLBACK and throw.
\* fresh is the id generateUUID() returns when video.id is already taken.
addVideo(d, f, video, fresh) ==
    LET existing == video.id \in VideoIdsOf(d)
        videoToInsert ==
            [video EXCEPT !.id = IF existing THEN fresh ELSE @,
                          !.categoryId = IF @ = "NULL" THEN "all" ELSE @]
        ins == InsertVideo(d, f, videoToInsert)
    IN  IF "videos" \in d.tables /\ ins.ok
        THEN Ret(TRUE, ins.db, videoToInsert.id)
        ELSE Ret(FALSE, d, 0)

\* deleteVideo lines 395-403: one DELETE, no ensureSetup
deleteVideo(d, f, id) ==
    LET del == DeleteVideoRow(d, f, id)
    IN  Ret(del.ok, del.db, 0)

\* updateVideo lines 405-419: no statement when no field is supplied
updateVideo(d, f, id, updates) ==
    IF updates.kind = "none"
    THEN Ret(TRUE, d, 0)
    ELSE IF updates.kind = "title"
    THEN Ret("videos" \in d.tables, d, 0)
    ELSE LET upd == SetCategoryWhere(d, f, {id}, updates.categoryId)
         IN  Ret(upd.ok, upd.db, 0)

\* UPDATE videos SET categoryId = "all" WHERE categoryId = ?   (lines 549-552)
ReassignToAll(d, f, id) ==
    SetCategoryWhere(d, f, {v.id : v \in {x \in d.videos : x.categoryId = id}}, "all")

\* deleteCategory lines 542-569: BEGIN; UPDATE videos; DELETE category; COMMIT,
\* or ROLLBACK and throw.  No ensureSetup and no test of the id.
deleteCategory(d, f, id) ==
    LET upd == ReassignToAll(d, f, id)
        del == DeleteCategoryRow(upd.db, f, id)
    IN  IF upd.ok /\ del.ok
        THEN Ret(TRUE, del.db, 0)
        ELSE Ret(FALSE, d, 0)

\* addCategory lines 506-524
addCategory(d, id) ==
    LET ins == InsertCategory(d, id)
    IN  Ret(ins.ok, ins.db, 0)

\* addCoreMemory lines 467-478
addCoreMemory(d, f, vid) ==
    LET ins == InsertOrReplaceCoreMemory(d, f, vid)
    IN  Ret(ins.ok, ins.db, 0)

\* deleteCoreMemory lines 496-504
deleteCoreMemory(d, vid) ==
    LET del == DeleteCoreMemoryRow(d, vid)
    IN  Ret(del.ok, del.db, 0)

\* getVideos lines 332-345: ensureSetup, then the SELECT; [] on any error
getVideos(d, init, prom, categoryId) ==
    LET s == ensureSetup(d, init, prom)
    IN  IF s.ok THEN SelectVideos(s.db, categoryId) ELSE {}

----------------------------------------------------------------------------
(* SpecRepo: one caller, each call awaited before the next is issued *)

Call(op, ok, id, cat) == [op |-> op, ok |-> ok, id |-> id, cat |-> cat, arg |-> 0]

UpdateInputs ==
    {[kind |-> "none", categoryId |-> "NULL"], [kind |-> "title", categoryId |-> "NULL"]}
    \cup {[kind |-> "category", categoryId |-> c] : c \in CategoryInputs \ {"NULL"}}

\* the flags and the connection after a sequential setup()/ensureSetup() s
AfterSetup(s) ==
    /\ isInitialized' = s.isInitialized
    /\ initPromise' = s.initPromise
    /\ promiseState' = IF s.ran /\ s.initPromise # 0
                       THEN [promiseState EXCEPT ![1] = "resolved"]
                       ELSE promiseState
    /\ fk' = (fk \/ s.ran)

RepoIdle == ~snap.open

\* app start (part_000 lines 25-36) or any explicit setup() call; arg records
\* whether the initialization body ran (1) or the call returned before it (0)
RepoSetup ==
    LET s == setup(db, isInitialized, initPromise)
    IN  /\ RepoIdle
        /\ AfterSetup(s)
        /\ db' = s.db
        /\ last' = [Call("setup", s.ok, 0, "NULL") EXCEPT !.arg = IF s.ran THEN 1 ELSE 0]
        /\ UNCHANGED <<snap, setupVars, assetVars>>

RepoAddVideo ==
    \E id \in VideoIds, cat \in CategoryInputs, w \in RepoWindows, fresh \in VideoIds :
        LET s == ensureSetup(db, isInitialized, initPromise)
            r == addVideo(s.db, fk \/ s.ran, VideoEntry(id, PickerUri, AnyThumb, w, cat), fresh)
        IN  /\ RepoIdle
            /\ fresh \notin VideoIdsOf(s.db)
            /\ AfterSetup(s)
            /\ db' = IF s.ok THEN r.db ELSE s.db
            /\ last' = [Call("addVideo", s.ok /\ r.ok, IF s.ok THEN r.ret ELSE 0, cat)
                           EXCEPT !.arg = id]
            /\ UNCHANGED <<snap, setupVars, assetVars>>

RepoDeleteVideo ==
    \E id \in VideoIds :
        LET r == deleteVideo(db, fk, id)
        IN  /\ RepoIdle
            /\ db' = r.db
            /\ last' = Call("deleteVideo", r.ok, id, "NULL")
            /\ UNCHANGED <<snap, fk, isInitialized, initPromise, promiseState,
                           setupVars, assetVars>>

RepoUpdateVideo ==
    \E id \in VideoIds, updates \in UpdateInputs :
        LET r == updateVideo(db, fk, id, updates)
        IN  /\ RepoIdle
            /\ db' = r.db
            /\ last' = Call("updateVideo", r.ok, id, updates.categoryId)
            /\ UNCHANGED <<snap, fk, isInitialized, initPromise, promiseState,
                           setupVars, assetVars>>

RepoAddCategory ==
    \E id \in CustomCategories :
        LET r == addCategory(db, id)
        IN  /\ RepoIdle
            /\ db' = r.db
            /\ last' = Call("addCategory", r.ok, 0, id)
            /\ UNCHANGED <<snap, fk, isInitialized, initPromise, promiseState,
                           setupVars, assetVars>>

RepoDeleteCategory ==
    \E id \in DeleteInputs :
        LET r == deleteCategory(db, fk, id)
        IN  /\ RepoIdle
            /\ db' = r.db
            \* id: how many videos referenced the category when the call was made
            /\ last' = Call("deleteCategory", r.ok,
                            Cardinality({v \in db.videos : v.categoryId = id}), id)
            /\ UNCHANGED <<snap, fk, isInitialized, initPromise, promiseState,
                           setupVars, assetVars>>

RepoAddCoreMemory ==
    \E vid \in VideoIds :
        LET r == addCoreMemory(db, fk, vid)
        IN  /\ RepoIdle
            /\ db' = r.db
            /\ last' = Call("addCoreMemory", r.ok, vid, "NULL")
            /\ UNCHANGED <<snap, fk, isInitialized, initPromise, promiseState,
                           setupVars, assetVars>>

RepoDeleteCoreMemory ==
    \E vid \in VideoIds :
        LET r == deleteCoreMemory(db, vid)
        IN  /\ RepoIdle
            /\ db' = r.db
            /\ last' = Call("deleteCoreMemory", r.ok, vid, "NULL")
            /\ UNCHANGED <<snap, fk, isInitialized, initPromise, promiseState,
                           setupVars, assetVars>>

\* clearDatabase lines 421-456: BEGIN; DROP all; flags reset; COMMIT; setup()
RepoClearDatabase ==
    LET s == setup(DropAllTables(db), FALSE, 0)
    IN  /\ RepoIdle
        /\ AfterSetup(s)
        /\ db' = s.db
        /\ last' = Call("clearDatabase", s.ok, 0, "NULL")
        /\ UNCHANGED <<snap, setupVars, assetVars>>

RepoGetVideos ==
    \E cat \in DeleteInputs :
        LET s == ensureSetup(db, isInitialized, initPromise)
        IN  /\ RepoIdle
            /\ AfterSetup(s)
            /\ db' = s.db
            /\ last' = Call("getVideos", s.ok, 0, cat)
            /\ UNCHANGED <<snap, setupVars, assetVars>>

\* the process is relaunched: the module-level connection is opened again
\* (line 5) with SQLite's default foreign_keys = OFF, the singleton's flags
\* start over (lines 88-89); the database file persists
Restart ==
    /\ RepoIdle
    /\ fk' = FALSE
    /\ isInitialized' = FALSE
    /\ initPromise' = 0
    /\ promiseState' = [k \in DOMAIN promiseState |-> "free"]
    /\ last' = Call("restart", TRUE, 0, "NULL")
    /\ UNCHANGED <<db, snap, setupVars, assetVars>>

NoCall == Call("none", TRUE, 0, "NULL")

\* values of the variables a specification does not use
IdleSetup == /\ pc = <<>>
             /\ loc = <<>>
IdleAssets == /\ files = {}
              /\ metaIdx = {}
              /\ clock = 0
              /\ mem = <<>>

\* first launch: no database file content, fresh connection and singleton
InitRepo ==
    /\ db = EmptyDb
    /\ snap = NoTxn
    /\ fk = FALSE
    /\ isInitialized = FALSE
    /\ initPromise = 0
    /\ promiseState = [k \in {1} |-> "free"]
    /\ last = NoCall
    /\ IdleSetup
    /\ IdleAssets

NextRepo ==
    \/ RepoSetup
    \/ RepoAddVideo
    \/ RepoDeleteVideo
    \/ RepoUpdateVideo
    \/ RepoAddCategory
    \/ RepoDeleteCategory
    \/ RepoAddCoreMemory
    \/ RepoDeleteCoreMemory
    \/ RepoClearDatabase
    \/ RepoGetVideos
    \/ Restart

SpecRepo == InitRepo /\ [][NextRepo]_vars

----------------------------------------------------------------------------
(* SpecSetup: callers of setup() interleaving at the await points.          *)
(* A step of caller p executes the statement p is waiting on, against the   *)
(* single shared connection, and then runs p's synchronous code up to the   *)
(* next awaited statement.                                                  *)

Callers == {1, 2}

\* the statement of a single connection that opens, commits or rolls back a
\* transaction; ok = FALSE is SQLite's "cannot start a transaction within a
\* transaction" / "no transaction is active"
Begin(d, s) ==
    IF s.open THEN [ok |-> FALSE, db |-> d, snap |-> s]
    ELSE [ok |-> TRUE, db |-> d, snap |-> [open |-> TRUE, db |-> d]]

Commit(d, s) ==
    IF s.open THEN [ok |-> TRUE, db |-> d, snap |-> NoTxn]
    ELSE [ok |-> FALSE, db |-> d, snap |-> s]

Rollback(d, s) ==
    IF s.open THEN [ok |-> TRUE, db |-> s.db, snap |-> NoTxn]
    ELSE [ok |-> FALSE, db |-> d, snap |-> s]

\* PRAGMA foreign_keys = ON is a no-op inside a transaction
PragmaForeignKeys(f, s) == IF s.open THEN f ELSE TRUE

\* the singleton's fields as one value
Js == [init |-> isInitialized, prom |-> initPromise, ps |-> promiseState]

NewPromise(ps) == CHOOSE k \in DOMAIN ps : ps[k] = "free" /\ \A j \in DOMAIN ps : j < k => ps[j] # "free"

\* where a caller goes next: [pc, l (its locals), j (the singleton's fields)]
Go(nextPc, l, j) == [pc |-> nextPc, l |-> l, j |-> j]

\* setup lines 168-215: a new initialization starts; the async body runs up to
\* its first await and the promise is stored
StartInit(l, j) ==
    LET k == NewPromise(j.ps)
    IN  Go("pragma", [l EXCEPT !.own = k],
           [j EXCEPT !.prom = k, !.ps = [@ EXCEPT ![k] = "pending"]])

\* setup lines 154-166: wait for the stored promise if there is one
AwaitOrStart(l, j) ==
    IF j.prom # 0
    THEN Go("await", [l EXCEPT !.waits = j.prom], j)
    ELSE StartInit(l, j)

\* setup() returns or throws.  Called directly, that ends the call; called by
\* getVideos through ensureSetup (lines 309-320, 332-345), a throw is caught
\* and [] returned, a return leads to ensureSetup's health check.
Return(l, j, res) ==
    LET m == [l EXCEPT !.res = res, !.own = 0, !.waits = 0]
    IN  IF l.entry = "setup" THEN Go("idle", m, j)
        ELSE IF res = "ok" THEN Go("ensureCheck", m, j)
        ELSE Go("idle", [m EXCEPT !.out = "caught"], j)

\* setup lines 205-206: the body succeeded
InitDone(l, j) ==
    Return(l, [j EXCEPT !.init = TRUE, !.ps = [@ EXCEPT ![l.own] = "resolved"]], "ok")

\* setup lines 207-212: the body threw
InitFailed_KeepsPromise(l, j) ==
    Return(l, [j EXCEPT !.init = FALSE, !.ps = [@ EXCEPT ![l.own] = "rejected"]], "err")

InitFailed(l, j) ==
    Return(l, [j EXCEPT !.init = FALSE, !.prom = 0,
                        !.ps = [@ EXCEPT ![l.own] = "rejected"]], "err")

\* resetDatabase lines 130-132, after its COMMIT
ResetState(j) == [j EXCEPT !.init = FALSE, !.prom = 0]

Apply(p, g, d, s, f) ==
    /\ pc' = [pc EXCEPT ![p] = g.pc]
    /\ loc' = [loc EXCEPT ![p] = g.l]
    /\ isInitialized' = g.j.init
    /\ initPromise' = g.j.prom
    /\ promiseState' = g.j.ps
    /\ db' = d
    /\ snap' = s
    /\ fk' = f
    /\ UNCHANGED <<last, assetVars>>

\* number of setup() calls each caller makes
MaxSetupCalls == 2

\* setup lines 142-155, up to the first await
\* the entry points a caller uses
Entries == {"setup", "getVideos"}

\* a caller that has made no call.  entry: the method called; fault: one of
\* its statements was refused by the store; out/rows/queries: what getVideos
\* returned and how often it ran its SELECT; at: the store when getVideos was
\* called; failed: the schema step that threw; dropped: resetDatabase dropped
\* tables that held video or core memory rows; prev: how the caller's
\* previous setup() ended
NoSetupCall ==
    [own |-> 0, waits |-> 0, calls |-> 0, res |-> "none", entry |-> "setup",
     fault |-> FALSE, out |-> "none", rows |-> {}, queries |-> 0, at |-> EmptyDb,
     failed |-> "none", dropped |-> FALSE, prev |-> "none"]

\* whether the store refuses the statement about to run (an I/O error, not
\* the locked error that is retried): never, or at most once
NoRefusal == {FALSE}

Refusals == IF \A q \in Callers : ~loc[q].fault THEN BOOLEAN ELSE {FALSE}

Refused(l, bad) == [l EXCEPT !.fault = @ \/ bad]

SetupCall(p, E) ==
    /\ pc[p] = "idle"
    /\ loc[p].calls < MaxSetupCalls
    /\ \E entry \in E :
        LET l == [NoSetupCall EXCEPT !.calls = loc[p].calls + 1, !.entry = entry,
                                     !.fault = loc[p].fault, !.prev = loc[p].res,
                                     !.at = IF entry = "getVideos" THEN db ELSE @]
        IN  Apply(p, IF isInitialized THEN Go("check1", l, Js) ELSE AwaitOrStart(l, Js),
                  db, snap, fk)

\* setup lines 145-152: the health check of an initialized service
Check1(p, R) ==
    /\ pc[p] = "check1"
    /\ \E bad \in R :
        Apply(p, IF ~bad /\ verifyDatabaseHealth(db)
                 THEN Return(Refused(loc[p], bad), Js, "ok")
                 ELSE AwaitOrStart(Refused(loc[p], bad), [Js EXCEPT !.init = FALSE]),
              db, snap, fk)

\* setup lines 156-165: the awaited initialization of another call settled
AwaitInit(p) ==
    /\ pc[p] = "await"
    /\ promiseState[loc[p].waits] # "pending"
    /\ Apply(p, IF promiseState[loc[p].waits] = "resolved"
                THEN Go("check2", loc[p], Js)
                ELSE StartInit(loc[p], [Js EXCEPT !.prom = 0]),
             db, snap, fk)

\* setup lines 158-161
Check2(p, R) ==
    /\ pc[p] = "check2"
    /\ \E bad \in R :
        Apply(p, IF ~bad /\ verifyDatabaseHealth(db)
                 THEN Return(Refused(loc[p], bad), Js, "ok")
                 ELSE StartInit(Refused(loc[p], bad), Js),
              db, snap, fk)

\* setup lines 172-173: PRAGMA foreign_keys = ON; PRAGMA journal_mode = WAL
Pragma(p) ==
    /\ pc[p] = "pragma"
    /\ Apply(p, Go("health", loc[p], Js), db, snap, PragmaForeignKeys(fk, snap))

\* setup lines 176-180; verifyDatabaseHealth answers false when its query
\* throws (lines 109-112)
Health(p, R) ==
    /\ pc[p] = "health"
    /\ \E bad \in R :
        Apply(p, Go(IF ~bad /\ verifyDatabaseHealth(db) THEN "tablesExist" ELSE "resetBegin",
                    Refused(loc[p], bad), Js),
              db, snap, fk)

\* resetDatabase line 117
ResetBegin(p) ==
    /\ pc[p] = "resetBegin"
    /\ LET r == Begin(db, snap)
       IN  Apply(p, Go(IF r.ok THEN "resetDrop" ELSE "resetRollback", loc[p], Js),
                 r.db, r.snap, fk)

\* resetDatabase lines 120-126
ResetDrop(p, R) ==
    /\ pc[p] = "resetDrop"
    /\ \E bad \in R :
        IF bad
        THEN Apply(p, Go("resetRollback", Refused(loc[p], bad), Js), db, snap, fk)
        ELSE Apply(p, Go("resetCommit",
                         [loc[p] EXCEPT !.dropped = (db.videos # {} \/ db.core # {})], Js),
                   DropAllTables(db), snap, fk)

\* resetDatabase lines 128-132
ResetCommit(p) ==
    /\ pc[p] = "resetCommit"
    /\ LET r == Commit(db, snap)
       IN  Apply(p, IF r.ok
                    THEN Go("tablesExist", loc[p], ResetState(Js))
                    ELSE Go("resetRollback", loc[p], Js),
                 r.db, r.snap, fk)

\* resetDatabase lines 135-139: ROLLBACK, then the error leaves setup's body
ResetRollback(p) ==
    /\ pc[p] = "resetRollback"
    /\ LET r == Rollback(db, snap)
       IN  Apply(p, InitFailed([loc[p] EXCEPT !.dropped = FALSE], Js), r.db, r.snap, fk)

\* setup lines 184-196: is there a db_version table?
TablesExist(p) ==
    /\ pc[p] = "tablesExist"
    /\ Apply(p, Go(IF "db_version" \in db.tables THEN "selectVersion" ELSE "createPragma",
                   loc[p], Js),
             db, snap, fk)

\* setup lines 192-195: SELECT version FROM db_version.  The statement fails
\* without the table, version[0] is undefined without a row.  An older
\* version enters handleMigration, whose first statement depends on it.
SelectVersion(p) ==
    /\ pc[p] = "selectVersion"
    /\ Apply(p, IF "db_version" \notin db.tables \/ db.version = 0
                THEN InitFailed(loc[p], Js)
                ELSE IF db.version < CURRENT_DB_VERSION
                THEN Go(IF db.version < 2 THEN "migrateAlter" ELSE "migrateVersion",
                        loc[p], Js)
                ELSE Go("finalCheck", loc[p], Js),
             db, snap, fk)

\* handleMigration line 304 (no transaction)
MigrateAlter(p, R) ==
    /\ pc[p] = "migrateAlter"
    /\ \E bad \in R :
        LET a == AlterAddKey(db)
            l == Refused(loc[p], bad)
        IN  IF a.ok /\ ~bad
            THEN Apply(p, Go("migrateVersion", l, Js), a.db, snap, fk)
            ELSE Apply(p, InitFailed([l EXCEPT !.failed = "migrate"], Js), db, snap, fk)

\* handleMigration line 306 (no transaction)
MigrateVersion(p, R) ==
    /\ pc[p] = "migrateVersion"
    /\ \E bad \in R :
        LET u == UpdateVersion(db)
            l == Refused(loc[p], bad)
        IN  IF u.ok /\ ~bad
            THEN Apply(p, Go("finalCheck", l, Js), u.db, snap, fk)
            ELSE Apply(p, InitFailed([l EXCEPT !.failed = "migrate"], Js), db, snap, fk)

\* createInitialSchema line 220
CreatePragma(p) ==
    /\ pc[p] = "createPragma"
    /\ Apply(p, Go("createBegin", loc[p], Js), db, snap, PragmaForeignKeys(fk, snap))

\* createInitialSchema line 223: BEGIN, outside the try block
CreateBegin(p) ==
    /\ pc[p] = "createBegin"
    /\ LET r == Begin(db, snap)
       IN  Apply(p, IF r.ok
                    THEN Go("createVersionTable", loc[p], Js)
                    ELSE InitFailed([loc[p] EXCEPT !.failed = "create"], Js),
                 r.db, r.snap, fk)

\* the CREATE TABLE IF NOT EXISTS statements, in the order of lines 227-278
CreateOrder ==
    [createVersionTable |-> [table |-> "db_version", next |-> "insertVersion"],
     createCategories   |-> [table |-> "categories", next |-> "createVideos"],
     createVideos       |-> [table |-> "videos", next |-> "createCoreMemories"],
     createCoreMemories |-> [table |-> "core_memories", next |-> "createCustomTypes"],
     createCustomTypes  |-> [table |-> "custom_memory_types", next |-> "insertDefaults"]]

CreateTable(p, R) ==
    /\ pc[p] \in DOMAIN CreateOrder
    /\ \E bad \in R :
        LET t == CreateOrder[pc[p]].table
        IN  IF bad
            THEN Apply(p, Go("createRollback", Refused(loc[p], bad), Js), db, snap, fk)
            ELSE Apply(p, Go(CreateOrder[pc[p]].next, loc[p], Js),
                       [db EXCEPT !.tables = @ \cup {t},
                                  !.key = IF t = "categories" /\ t \notin db.tables
                                          THEN TRUE ELSE @],
                       snap, fk)

\* createInitialSchema line 228: INSERT OR REPLACE INTO db_version
InsertVersion(p, R) ==
    /\ pc[p] = "insertVersion"
    /\ \E bad \in R :
        IF "db_version" \in db.tables /\ ~bad
        THEN Apply(p, Go("createCategories", loc[p], Js),
                   [db EXCEPT !.version = CURRENT_DB_VERSION], snap, fk)
        ELSE Apply(p, Go("createRollback", Refused(loc[p], bad), Js), db, snap, fk)

\* createInitialSchema lines 281-289: INSERT OR IGNORE the default categories
InsertDefaults(p, R) ==
    /\ pc[p] = "insertDefaults"
    /\ \E bad \in R :
        IF "categories" \in db.tables /\ ~bad
        THEN Apply(p, Go("createCommit", loc[p], Js),
                   [db EXCEPT !.categories = @ \cup DefaultCategories], snap, fk)
        ELSE Apply(p, Go("createRollback", Refused(loc[p], bad), Js), db, snap, fk)

\* createInitialSchema line 292
CreateCommit(p) ==
    /\ pc[p] = "createCommit"
    /\ LET r == Commit(db, snap)
       IN  Apply(p, Go(IF r.ok THEN "finalCheck" ELSE "createRollback", loc[p], Js),
                 r.db, r.snap, fk)

\* createInitialSchema lines 294-299
CreateRollback(p) ==
    /\ pc[p] = "createRollback"
    /\ LET r == Rollback(db, snap)
       IN  Apply(p, InitFailed([loc[p] EXCEPT !.failed = "create"], Js), r.db, r.snap, fk)

\* setup lines 200-206
FinalCheck(p, R) ==
    /\ pc[p] = "finalCheck"
    /\ \E bad \in R :
        Apply(p, IF ~bad /\ verifyDatabaseHealth(db)
                 THEN InitDone(Refused(loc[p], bad), Js)
                 ELSE InitFailed(Refused(loc[p], bad), Js),
              db, snap, fk)

\* ensureSetup lines 312-315, reached from getVideos: a failed check throws,
\* and getVideos' catch returns []
EnsureCheck(p) ==
    /\ pc[p] = "ensureCheck"
    /\ Apply(p, IF verifyDatabaseHealth(db)
                THEN Go("query", loc[p], Js)
                ELSE Go("idle", [loc[p] EXCEPT !.out = "caught"], Js),
             db, snap, fk)

\* getVideos lines 335-340: the SELECT, run once; an error is caught and []
\* returned (lines 341-344)
Query(p, R) ==
    /\ pc[p] = "query"
    /\ \E bad \in R :
        LET l == [Refused(loc[p], bad) EXCEPT !.queries = @ + 1]
        IN  Apply(p, IF "videos" \in db.tables /\ ~bad
                     THEN Go("idle", [l EXCEPT !.out = "list",
                                               !.rows = SelectVideos(db, "NULL")], Js)
                     ELSE Go("idle", [l EXCEPT !.out = "caught"], Js),
                  db, snap, fk)

\* a store left by an earlier run of this version of the app
InstalledDb == SchemaStatements(EmptyDb)

\* a store left by the previous schema version
LegacyDb == [InstalledDb EXCEPT !.version = CURRENT_DB_VERSION - 1]

\* a store left by schema version 1: categories has no column `key`
FirstVersionDb == [InstalledDb EXCEPT !.version = 1, !.key = FALSE]

\* the row the store holds when the calls start
StoredVideo == VideoEntry(1, PickerUri, AnyThumb, <<0, MaxTime>>, "travel")

\* process start over a fresh, an installed or a legacy store
InitSetup ==
    /\ db \in {EmptyDb, InstalledDb, LegacyDb, FirstVersionDb,
               [InstalledDb EXCEPT !.videos = {StoredVideo}]}
    /\ snap = NoTxn
    /\ fk = FALSE
    /\ isInitialized = FALSE
    /\ initPromise = 0
    /\ promiseState = [k \in 1..(2 * MaxSetupCalls) |-> "free"]
    /\ last = NoCall
    /\ pc = [p \in Callers |-> "idle"]
    /\ loc = [p \in Callers |-> NoSetupCall]
    /\ IdleAssets

SetupStep(p, E, R) ==
    \/ SetupCall(p, E)
    \/ Check1(p, R)
    \/ AwaitInit(p)
    \/ Check2(p, R)
    \/ Pragma(p)
    \/ Health(p, R)
    \/ ResetBegin(p)
    \/ ResetDrop(p, R)
    \/ ResetCommit(p)
    \/ ResetRollback(p)
    \/ TablesExist(p)
    \/ SelectVersion(p)
    \/ MigrateAlter(p, R)
    \/ MigrateVersion(p, R)
    \/ CreatePragma(p)
    \/ CreateBegin(p)
    \/ CreateTable(p, R)
    \/ InsertVersion(p, R)
    \/ InsertDefaults(p, R)
    \/ CreateCommit(p)
    \/ CreateRollback(p)
    \/ FinalCheck(p, R)

\* the steps of getVideos after setup() has returned
ReadStep(p, R) ==
    \/ EnsureCheck(p)
    \/ Query(p, R)

\* callers of setup() interleave; the store refuses nothing
NextSetup == \E p \in Callers : SetupStep(p, {"setup"}, NoRefusal)

SpecSetup == InitSetup /\ [][NextSetup]_vars

\* SpecFault: one caller of setup() and getVideos(); the store refuses at most
\* one statement
NextFault == SetupStep(1, Entries, Refusals) \/ ReadStep(1, Refusals)

SpecFault == InitSetup /\ [][NextFault]_vars

----------------------------------------------------------------------------
(* SpecTxn: repository calls of two callers interleaved on the single       *)
(* connection.  Each caller makes one call; a step is one awaited statement. *)
(* A statement issued while a transaction is open runs inside it, whoever   *)
(* opened it.                                                               *)

\* the calls a caller can make: op, the id it is given, the category it names
TxnCalls ==
    {[op |-> "addVideo", id |-> 2, cat |-> c] : c \in {"all", "c1"}}
    \cup {[op |-> "deleteVideo", id |-> 1, cat |-> "NULL"],
          [op |-> "updateVideo", id |-> 1, cat |-> "family"],
          [op |-> "deleteCategory", id |-> 0, cat |-> "travel"],
          [op |-> "deleteCategory", id |-> 0, cat |-> "all"]}

NoTxnCall == [op |-> "none", id |-> 0, cat |-> "NULL", ret |-> 0, res |-> "none"]

InitTxn ==
    /\ db = [InstalledDb EXCEPT !.videos = {StoredVideo}]
    /\ snap = NoTxn
    /\ fk = TRUE
    /\ isInitialized = TRUE
    /\ initPromise = 1
    /\ promiseState = [k \in {1} |-> "resolved"]
    /\ last = NoCall
    /\ pc = [p \in Callers |-> "idle"]
    /\ loc = [p \in Callers |-> NoTxnCall]
    /\ IdleAssets

TxnStep(p, nextPc, l, d, s) ==
    /\ pc' = [pc EXCEPT ![p] = nextPc]
    /\ loc' = [loc EXCEPT ![p] = l]
    /\ db' = d
    /\ snap' = s
    /\ UNCHANGED <<fk, isInitialized, initPromise, promiseState, last, assetVars>>

\* the call returns (res = "ok") or throws (res = "error")
TxnReturn(p, res, ret, d, s) ==
    TxnStep(p, "done", [loc[p] EXCEPT !.res = res, !.ret = ret], d, s)

\* a caller invokes a method; the method runs up to its first await
TxnCall(p) ==
    /\ pc[p] = "idle"
    /\ \E c \in TxnCalls :
           TxnStep(p, CASE c.op = "addVideo" -> "addEnsure"
                        [] c.op = "deleteVideo" -> "deleteRun"
                        [] c.op = "updateVideo" -> "updateRun"
                        [] c.op = "deleteCategory" -> "dcBegin",
                   [NoTxnCall EXCEPT !.op = c.op, !.id = c.id, !.cat = c.cat], db, snap)

\* addVideo line 349: await this.ensureSetup()
AddEnsure(p) ==
    /\ pc[p] = "addEnsure"
    /\ LET s == ensureSetup(db, isInitialized, initPromise)
       IN  IF s.ok /\ ~s.ran
           THEN TxnStep(p, "addBegin", loc[p], db, snap)
           ELSE TxnReturn(p, "error", 0, db, snap)

\* addVideo line 350: BEGIN TRANSACTION, outside the inner try
AddBegin(p) ==
    /\ pc[p] = "addBegin"
    /\ LET b == Begin(db, snap)
       IN  IF b.ok
           THEN TxnStep(p, "addSelect", loc[p], b.db, b.snap)
           ELSE TxnReturn(p, "error", 0, db, snap)

\* addVideo lines 354-364: SELECT id; a taken id is replaced by generateUUID()
AddSelect(p) ==
    /\ pc[p] = "addSelect"
    /\ TxnStep(p, "addInsert",
               [loc[p] EXCEPT !.ret = IF loc[p].id \in VideoIdsOf(db)
                                      THEN MaxVideos + 1 ELSE loc[p].id],
               db, snap)

\* addVideo lines 366-381: INSERT INTO videos
AddInsert(p) ==
    /\ pc[p] = "addInsert"
    /\ LET ins == InsertVideo(db, fk, VideoEntry(loc[p].ret, PickerUri, AnyThumb,
                                                 <<0, MaxTime>>, loc[p].cat))
       IN  IF ins.ok
           THEN TxnStep(p, "addCommit", loc[p], ins.db, snap)
           ELSE TxnStep(p, "addRollback", loc[p], db, snap)

\* addVideo lines 383-385: COMMIT and return the id
AddCommit(p) ==
    /\ pc[p] = "addCommit"
    /\ LET c == Commit(db, snap)
       IN  IF c.ok
           THEN TxnReturn(p, "ok", loc[p].ret, c.db, c.snap)
           ELSE TxnStep(p, "addRollback", loc[p], db, snap)

\* addVideo lines 386-389: ROLLBACK and rethrow
AddRollback(p) ==
    /\ pc[p] = "addRollback"
    /\ LET r == Rollback(db, snap)
       IN  TxnReturn(p, "error", 0, r.db, r.snap)

\* deleteVideo lines 395-403: one DELETE on the connection
DeleteRun(p) ==
    /\ pc[p] = "deleteRun"
    /\ LET r == deleteVideo(db, fk, loc[p].id)
       IN  TxnReturn(p, IF r.ok THEN "ok" ELSE "error", 0, r.db, snap)

\* updateVideo lines 405-419: one UPDATE on the connection
UpdateRun(p) ==
    /\ pc[p] = "updateRun"
    /\ LET r == updateVideo(db, fk, loc[p].id, [kind |-> "category", categoryId |-> loc[p].cat])
       IN  TxnReturn(p, IF r.ok THEN "ok" ELSE "error", 0, r.db, snap)

\* deleteCategory line 545: BEGIN TRANSACTION, outside the inner try
DcBegin(p) ==
    /\ pc[p] = "dcBegin"
    /\ LET b == Begin(db, snap)
       IN  IF b.ok
           THEN TxnStep(p, "dcUpdate", loc[p], b.db, b.snap)
           ELSE TxnReturn(p, "error", 0, db, snap)

\* deleteCategory lines 549-552: UPDATE videos SET categoryId = "all"
DcUpdate(p) ==
    /\ pc[p] = "dcUpdate"
    /\ LET u == ReassignToAll(db, fk, loc[p].cat)
       IN  IF u.ok
           THEN TxnStep(p, "dcDelete", loc[p], u.db, snap)
           ELSE TxnStep(p, "dcRollback", loc[p], db, snap)

\* deleteCategory line 555: DELETE FROM categories
DcDelete(p) ==
    /\ pc[p] = "dcDelete"
    /\ LET del == DeleteCategoryRow(db, fk, loc[p].cat)
       IN  IF del.ok
           THEN TxnStep(p, "dcCommit", loc[p], del.db, snap)
           ELSE TxnStep(p, "dcRollback", loc[p], db, snap)

\* deleteCategory line 558: COMMIT
DcCommit(p) ==
    /\ pc[p] = "dcCommit"
    /\ LET c == Commit(db, snap)
       IN  IF c.ok
           THEN TxnReturn(p, "ok", 0, c.db, c.snap)
           ELSE TxnStep(p, "dcRollback", loc[p], db, snap)

\* deleteCategory lines 560-563: ROLLBACK and rethrow
DcRollback(p) ==
    /\ pc[p] = "dcRollback"
    /\ LET r == Rollback(db, snap)
       IN  TxnReturn(p, "error", 0, r.db, r.snap)

NextTxn ==
    \E p \in Callers :
        \/ TxnCall(p)
        \/ AddEnsure(p)
        \/ AddBegin(p)
        \/ AddSelect(p)
        \/ AddInsert(p)
        \/ AddCommit(p)
        \/ AddRollback(p)
        \/ DeleteRun(p)
        \/ UpdateRun(p)
        \/ DcBegin(p)
        \/ DcUpdate(p)
        \/ DcDelete(p)
        \/ DcCommit(p)
        \/ DcRollback(p)

SpecTxn == InitTxn /\ [][NextTxn]_vars

----------------------------------------------------------------------------
(* SpecLock: repository calls, one at a time, on a store that answers the   *)
(* next mem.locked statements with "database table is locked".              *)

\* number of consecutive statements the store can refuse
MaxLocked == 3

\* maxRetries of retryOperation
MaxRetries == 3

\* retryOperation lines 41-60 around an operation whose first `locked`
\* attempts fail with the locked error: the attempts made, and whether the
\* last one ran
retryOperation(locked) ==
    [ok |-> locked < MaxRetries,
     attempts |-> IF locked < MaxRetries THEN locked + 1 ELSE MaxRetries]

\* a statement issued once, as every method outside setup() issues it
issuedOnce(locked) == [ok |-> locked = 0, attempts |-> 1]

\* setup() on a store that refuses the next `locked` attempts of the schema
\* check of lines 183-197: the result of setup, the refusals left, the attempts
setupLocked(d, init, prom, locked) ==
    LET s == setup(d, init, prom)
        t == retryOperation(locked)
    IN  IF ~s.ran
        THEN [s |-> s, left |-> locked, attempts |-> 0]
        ELSE IF t.ok
        THEN [s |-> s, left |-> 0, attempts |-> t.attempts]
        ELSE [s |-> [db |-> IF verifyDatabaseHealth(d) THEN d ELSE DropAllTables(d),
                     isInitialized |-> FALSE, initPromise |-> 0, ok |-> FALSE, ran |-> TRUE],
              left |-> locked - t.attempts, attempts |-> t.attempts]

NoLock == [locked |-> 0, was |-> 0, attempts |-> 0, lockErr |-> FALSE]

\* process start over an installed store
InitLock ==
    /\ db = InstalledDb
    /\ snap = NoTxn
    /\ fk = FALSE
    /\ isInitialized = FALSE
    /\ initPromise = 0
    /\ promiseState = [k \in {1} |-> "free"]
    /\ last = NoCall
    /\ IdleSetup
    /\ files = {}
    /\ metaIdx = {}
    /\ clock = 0
    /\ mem = NoLock

\* another holder of the store locks it for the next statements
LockStore ==
    /\ mem.locked = 0
    /\ \E n \in 1..MaxLocked : mem' = [NoLock EXCEPT !.locked = n]
    /\ last' = NoCall
    /\ UNCHANGED <<db, snap, fk, isInitialized, initPromise, promiseState, setupVars,
                   files, metaIdx, clock>>

\* the outcome of a method whose statement is issued once: r is what the
\* method does on an unlocked store
Issue(op, r, id, cat) ==
    LET t == issuedOnce(mem.locked)
    IN  /\ db' = IF t.ok THEN r.db ELSE db
        /\ last' = Call(op, t.ok /\ r.ok, id, cat)
        /\ mem' = [locked |-> IF mem.locked > 0 THEN mem.locked - 1 ELSE 0,
                   was |-> mem.locked, attempts |-> t.attempts, lockErr |-> ~t.ok]
        /\ UNCHANGED <<snap, setupVars, files, metaIdx, clock>>

LockSetup ==
    LET u == setupLocked(db, isInitialized, initPromise, mem.locked)
    IN  /\ AfterSetup(u.s)
        /\ db' = u.s.db
        /\ last' = Call("setup", u.s.ok, 0, "NULL")
        /\ mem' = [locked |-> u.left, was |-> IF u.s.ran THEN mem.locked ELSE 0,
                   attempts |-> u.attempts, lockErr |-> u.s.ran /\ u.attempts > 0 /\ ~u.s.ok]
        /\ UNCHANGED <<snap, setupVars, files, metaIdx, clock>>

\* addVideo: ensureSetup(), then BEGIN, SELECT, INSERT, COMMIT issued once
LockAddVideo ==
    \E id \in VideoIds, cat \in {"travel", "c1"}, fresh \in VideoIds :
        LET u == setupLocked(db, isInitialized, initPromise, mem.locked)
            e == [u.s EXCEPT !.ok = u.s.ok /\ verifyDatabaseHealth(u.s.db)]
            t == issuedOnce(u.left)
            r == addVideo(e.db, fk \/ e.ran, VideoEntry(id, PickerUri, AnyThumb, <<0, MaxTime>>, cat),
                          fresh)
        IN  /\ fresh \notin VideoIdsOf(e.db)
            /\ AfterSetup(e)
            /\ db' = IF e.ok /\ t.ok THEN r.db ELSE e.db
            /\ last' = [Call("addVideo", e.ok /\ t.ok /\ r.ok,
                             IF e.ok /\ t.ok THEN r.ret ELSE 0, cat) EXCEPT !.arg = id]
            /\ mem' = IF e.ok
                      THEN [locked |-> IF u.left > 0 THEN u.left - 1 ELSE 0,
                            was |-> u.left, attempts |-> t.attempts, lockErr |-> ~t.ok]
                      ELSE [locked |-> u.left, was |-> 0, attempts |-> 0, lockErr |-> FALSE]
            /\ UNCHANGED <<snap, setupVars, files, metaIdx, clock>>

LockDeleteVideo ==
    \E id \in VideoIds :
        /\ Issue("deleteVideo", deleteVideo(db, fk, id), id, "NULL")
        /\ UNCHANGED <<fk, isInitialized, initPromise, promiseState>>

LockUpdateVideo ==
    \E id \in VideoIds :
        /\ Issue("updateVideo",
                 updateVideo(db, fk, id, [kind |-> "category", categoryId |-> "family"]),
                 id, "family")
        /\ UNCHANGED <<fk, isInitialized, initPromise, promiseState>>

LockAddCoreMemory ==
    \E vid \in VideoIds :
        /\ Issue("addCoreMemory", addCoreMemory(db, fk, vid), vid, "NULL")
        /\ UNCHANGED <<fk, isInitialized, initPromise, promiseState>>

LockDeleteCoreMemory ==
    \E vid \in VideoIds :
        /\ Issue("deleteCoreMemory", deleteCoreMemory(db, vid), vid, "NULL")
        /\ UNCHANGED <<fk, isInitialized, initPromise, promiseState>>

LockAddCategory ==
    \E id \in CustomCategories :
        /\ Issue("addCategory", addCategory(db, id), 0, id)
        /\ UNCHANGED <<fk, isInitialized, initPromise, promiseState>>

LockDeleteCategory ==
    \E id \in {"travel", "c1"} :
        /\ Issue("deleteCategory", deleteCategory(db, fk, id), 0, id)
        /\ UNCHANGED <<fk, isInitialized, initPromise, promiseState>>

NextLock ==
    \/ LockStore
    \/ LockSetup
    \/ LockAddVideo
    \/ LockDeleteVideo
    \/ LockUpdateVideo
    \/ LockAddCoreMemory
    \/ LockDeleteCoreMemory
    \/ LockAddCategory
    \/ LockDeleteCategory
    \/ Restart

SpecLock == InitLock /\ [][NextLock]_vars

----------------------------------------------------------------------------
(* The asset directories (FileManager and videoProcessor).                  *)
(* A file is [dir, name, size, born, w]: name = [lead, uid, ext] where lead *)
(* is the run of decimal digits the name starts with, born is the instant   *)
(* the file was written and w the trim window a sidecar holds (<<>> for a    *)
(* binary).  A uri is [dir, name].                                          *)

\* parseInt of a name that does not start with a digit
NaN == -1

\* MAX_CACHE_SIZE, in units of 250 MB
MAX_CACHE_SIZE == 2

VIDEO_DIR == "videos"

THUMBNAIL_DIR == "thumbnails"

Uri(f) == [dir |-> f.dir, name |-> f.name]

Exists(fs, uri) == \E f \in fs : Uri(f) = uri

\* FileManager.saveVideo: `${Date.now()}.mp4` in VIDEO_DIR
VideoFile(now, size) ==
    [dir |-> VIDEO_DIR, name |-> [lead |-> now, uid |-> 0, ext |-> "mp4"],
     size |-> size, born |-> now, w |-> <<>>]

\* generateThumbnail: `${Date.now()}_${generateUUID()}.jpg` in the thumbnail directory
ThumbnailFile(now, uid, size) ==
    [dir |-> THUMBNAIL_DIR, name |-> [lead |-> now, uid |-> uid, ext |-> "jpg"],
     size |-> size, born |-> now, w |-> <<>>]

\* processVideo: `${videoDir}/${videoId}.meta`; lead is what the identifier
\* starts with: NaN for a letter, else a digit run far below any Date.now()
SidecarFile(now, uid, lead, w) ==
    [dir |-> VIDEO_DIR, name |-> [lead |-> lead, uid |-> uid, ext |-> "meta"],
     size |-> 0, born |-> now, w |-> w]

\* writing a file replaces the file of the same name
WriteFile(fs, f) == {g \in fs : Uri(g) # Uri(f)} \cup {f}

\* deleteAsync with idempotent: true
DeleteUris(fs, uris) == {f \in fs : Uri(f) \notin uris}

RECURSIVE SumSizes(_)
SumSizes(fs) ==
    IF fs = {} THEN 0
    ELSE LET f == CHOOSE g \in fs : TRUE IN f.size + SumSizes(fs \ {f})

\* getFileStats(VIDEO_DIR).size + getFileStats(THUMBNAIL_DIR).size
getCacheSize(fs) == SumSizes({f \in fs : f.dir \in {VIDEO_DIR, THUMBNAIL_DIR}})

\* time: parseInt(name)
ParseIntName(f) == f.name.lead

\* the comparator (a, b) => a.time - b.time; a NaN difference counts as 0
CompareTime(a, b) ==
    IF ParseIntName(a) = NaN \/ ParseIntName(b) = NaN THEN 0
    ELSE ParseIntName(a) - ParseIntName(b)

Orderings(fs) ==
    {q \in [1..Cardinality(fs) -> fs] : \A i, j \in DOMAIN q : i # j => q[i] # q[j]}

\* the orders fileStats.sort(...) can return: no file is placed before one
\* the comparator ranks strictly below it
SortedFiles(fs) ==
    {q \in Orderings(fs) : \A i, j \in DOMAIN q : i < j => CompareTime(q[i], q[j]) <= 0}

\* the loop of cleanupCache lines 229-237 from position i on: the files deleted
RECURSIVE EvictFrom(_, _, _, _)
EvictFrom(q, i, currentSize, stuck) ==
    IF i > Len(q) \/ currentSize <= MAX_CACHE_SIZE THEN {}
    ELSE IF q[i] \in stuck
         THEN EvictFrom(q, i + 1, currentSize, stuck)
         ELSE {q[i]} \cup EvictFrom(q, i + 1, currentSize - q[i].size, stuck)

\* a sweep that deletes the oldest file before it looks at the total
cleanupCache_SweepsFirst(fs, q, stuck) ==
    IF Len(q) > 0 /\ q[1] \notin stuck
    THEN fs \ ({q[1]} \cup EvictFrom(q, 2, getCacheSize(fs) - q[1].size, stuck))
    ELSE fs \ EvictFrom(q, 2, getCacheSize(fs), stuck)

\* cleanupCache, given the order the sort returned and the files whose
\* deleteAsync throws: the files that remain
cleanupCache(fs, q, stuck) ==
    LET totalSize == getCacheSize(fs)
    IN  IF totalSize > MAX_CACHE_SIZE
        THEN fs \ EvictFrom(q, 1, totalSize, stuck)
        ELSE fs

\* the files of the two directories, as readDirectoryAsync lists them
Listed(fs) == {f \in fs : f.dir \in {VIDEO_DIR, THUMBNAIL_DIR}}

----------------------------------------------------------------------------
(* SpecCache: cleanupCache over the directory contents the app can produce  *)

MaxClock == 3

MaxSize == 2

MaxFiles == 3

CacheUids == {1}

CandidateFiles ==
    {VideoFile(t, z) : t \in 1..MaxClock, z \in 1..MaxSize}
    \cup {ThumbnailFile(t, u, 1) : t \in 1..MaxClock, u \in CacheUids}
    \cup {SidecarFile(t, u, l, <<0, MaxTime>>) : t \in 1..MaxClock, u \in CacheUids, l \in {NaN, 0}}

\* contents with one file per name; a sidecar is written right after a
\* video file is saved
RECURSIVE SetsUpTo(_, _)
SetsUpTo(S, n) ==
    IF n = 0 THEN {{}}
    ELSE LET P == SetsUpTo(S, n - 1) IN P \cup {p \cup {x} : p \in P, x \in S}

Directories ==
    {fs \in SetsUpTo(CandidateFiles, MaxFiles) :
        /\ \A f, g \in fs : Uri(f) = Uri(g) => f = g
        /\ \A f \in fs : f.name.ext = "meta" =>
               \E g \in fs : g.name.ext = "mp4" /\ g.born <= f.born}

NoSweep == [op |-> "none", before |-> {}, stuck |-> {}, prior |-> "none"]

\* the deletions that fail during one sweep: none or one file
StuckSets(fs) == {{}} \cup {{f} : f \in fs}

InitCache ==
    /\ files \in Directories
    /\ mem = NoSweep
    /\ clock = MaxClock
    /\ metaIdx = {}
    /\ db = InstalledDb
    /\ snap = NoTxn
    /\ fk = FALSE
    /\ isInitialized = FALSE
    /\ initPromise = 0
    /\ promiseState = [k \in {1} |-> "free"]
    /\ last = NoCall
    /\ IdleSetup

CacheVars == <<db, snap, fk, isInitialized, initPromise, promiseState, last, pc, loc,
               metaIdx, clock>>

\* FileManager.cleanupCache
CleanupCache ==
    /\ mem.prior = "none"
    /\ \E q \in SortedFiles(Listed(files)), stuck \in StuckSets(Listed(files)) :
           /\ files' = cleanupCache(files, q, stuck)
           /\ mem' = [op |-> "cleanupCache", before |-> files, stuck |-> stuck,
                      prior |-> IF mem.op = "none" THEN "none"
                                ELSE IF files = mem.before THEN "kept"
                                ELSE IF mem.stuck = {} THEN "swept" ELSE "partial"]
    /\ UNCHANGED CacheVars

\* FileManager.saveVideo of a later recording
SaveVideo ==
    /\ mem.op = "cleanupCache"
    /\ \E z \in 1..MaxSize :
           files' = WriteFile(files, VideoFile(clock, z))
    /\ mem' = NoSweep
    /\ UNCHANGED CacheVars

NextCache == CleanupCache \/ SaveVideo

SpecCache == InitCache /\ [][NextCache]_vars

----------------------------------------------------------------------------
(* Trim-window metadata (videoService and videoProcessor).                  *)
(* metaIdx is the metadata directory: entries [key, w], one per             *)
(* `${key}.json`; key 0 stands for a key that is no video's id.             *)

\* the sidecar a reader looks for: videoUri + '.meta'
MetaUri(uri) == [dir |-> uri.dir, name |-> [uri.name EXCEPT !.ext = "mp4.meta"]]

\* getMetadata: { startTime: 0, endTime: null } when the file is missing; a
\* null endTime is written 0 here, the readers only test its truthiness
getMetadata(fs, videoUri) ==
    IF Exists(fs, MetaUri(videoUri))
    THEN (CHOOSE f \in fs : Uri(f) = MetaUri(videoUri)).w
    ELSE <<0, 0>>

\* videoService.getVideoMetadata: the entries stored under the id (none = null)
getVideoMetadata(idx, videoId) == {e \in idx : e.key = videoId}

\* videoService.saveVideoMetadata
saveVideoMetadata(idx, id, w) == {e \in idx : e.key # id} \cup {[key |-> id, w |-> w]}

\* VideoPlayer.loadMetadata, after its attempts: the window playback uses
loadMetadata(idx, fs, videoId, uri) ==
    LET serviceMeta == getVideoMetadata(idx, videoId)
        localMeta == getMetadata(fs, uri)
    IN  IF serviceMeta # {}
        THEN [from |-> "service", w |-> (CHOOSE e \in serviceMeta : TRUE).w]
        ELSE IF localMeta[2] # 0
        THEN [from |-> "local", w |-> localMeta]
        ELSE [from |-> "default", w |-> <<0, "MAX_SAFE_INTEGER">>]

\* 24 * 60 * 60 * 1000 ms, in clock ticks
DayTicks == 1

\* generateThumbnail: the copy (ok = it succeeded) and the finally block that
\* deletes the files of the thumbnail directory whose name is older than a day
generateThumbnail(fs, now, uid, ok) ==
    LET thumb == ThumbnailFile(now, uid, 1)
        made == IF ok THEN WriteFile(fs, thumb) ELSE fs
        oldFiles == {f \in made : f.dir = THUMBNAIL_DIR /\ now - ParseIntName(f) > DayTicks}
    IN  [ok |-> ok, files |-> made \ oldFiles, uri |-> Uri(thumb)]

\* processVideo: fails = how many attempts the write to the metadata
\* directory fails; the sidecar write of the same Promise.all goes through
processVideo(fs, idx, now, size, w, videoId, fails, lead) ==
    LET video == VideoFile(now, size)
        saved == fails < 3
        fs2 == WriteFile(WriteFile(fs, video), SidecarFile(now, videoId, lead, w))
        idx2 == IF saved THEN saveVideoMetadata(idx, videoId, w) ELSE idx
        verifyMetadata == getMetadata(fs2, Uri(video))
    IN  [ok |-> saved /\ verifyMetadata[2] # 0, files |-> fs2, idx |-> idx2,
         uri |-> Uri(video), saved |-> {video}]

\* clearDatabase: the tables are dropped and setup recreates them
clearDatabase(d) == setup(DropAllTables(d), FALSE, 0)

----------------------------------------------------------------------------
(* SpecWrite: processVideo, one awaited step at a time                      *)

\* what parseInt makes of the identifier a sidecar is named after
Leads == {NaN, 0}

\* the bound of the loop `while (!saved && attempts < 3)`
MaxAttempts == 3

\* number of processVideo calls
MaxWrites == 2

\* where processVideo goes after an attempt; failed counts the attempts that
\* threw before this one, both is whether the two writes of this one succeeded
nextAttempt_OneMore(failed, both) ==
    IF both THEN [pc |-> "verify", failed |-> failed]
    ELSE IF failed < MaxAttempts THEN [pc |-> "write", failed |-> failed + 1]
    ELSE [pc |-> "throw", failed |-> failed + 1]

nextAttempt(failed, both) ==
    IF both THEN [pc |-> "verify", failed |-> failed]
    ELSE IF failed + 1 < MaxAttempts THEN [pc |-> "write", failed |-> failed + 1]
    ELSE [pc |-> "throw", failed |-> failed + 1]

\* tries: attempts made; wins: attempts on which both writes succeeded; both:
\* the outcome of the last attempt; raised/returned: how the call ended
NoWrite ==
    [pc |-> "idle", calls |-> 0, id |-> 0, w |-> <<>>, uri |-> PickerUri, lead |-> NaN,
     failed |-> 0, tries |-> 0, wins |-> 0, both |-> FALSE, copied |-> FALSE,
     raised |-> FALSE, returned |-> FALSE]

InitWrite ==
    /\ db = InstalledDb
    /\ snap = NoTxn
    /\ fk = TRUE
    /\ isInitialized = TRUE
    /\ initPromise = 1
    /\ promiseState = [k \in {1} |-> "resolved"]
    /\ last = NoCall
    /\ IdleSetup
    /\ files = {}
    /\ metaIdx = {}
    /\ clock = 1
    /\ mem = NoWrite

WriteVars == <<db, snap, fk, isInitialized, initPromise, promiseState, last, pc, loc>>

\* processVideo lines 496-505: FileManager.saveVideo copies the clip (ok) or
\* throws; the size of the copy plays no part in the writes that follow
WriteStart ==
    /\ mem.pc \in {"idle", "done"}
    /\ mem.calls < MaxWrites
    /\ \E w \in Windows, lead \in Leads, ok \in BOOLEAN :
        LET video == VideoFile(clock, 1)
            m == [NoWrite EXCEPT !.calls = mem.calls + 1, !.id = mem.calls + 1, !.w = w,
                                 !.uri = Uri(video), !.lead = lead, !.copied = ok]
        IN  /\ files' = IF ok THEN WriteFile(files, video) ELSE files
            /\ mem' = IF ok THEN [m EXCEPT !.pc = "write"]
                      ELSE [m EXCEPT !.pc = "done", !.raised = TRUE]
    /\ clock' = clock + 1
    /\ UNCHANGED <<metaIdx, WriteVars>>

\* processVideo lines 511-541: one pass of the loop; the two writes of the
\* Promise.all succeed or fail independently
WriteAttempt ==
    /\ mem.pc = "write"
    /\ \E sidecar \in BOOLEAN, service \in BOOLEAN :
        LET n == nextAttempt(mem.failed, sidecar /\ service)
        IN  /\ files' = IF sidecar
                        THEN WriteFile(files, SidecarFile(clock, mem.id, mem.lead, mem.w))
                        ELSE files
            /\ metaIdx' = IF service THEN saveVideoMetadata(metaIdx, mem.id, mem.w)
                          ELSE metaIdx
            /\ mem' = [mem EXCEPT !.pc = n.pc, !.failed = n.failed, !.tries = @ + 1,
                                  !.both = sidecar /\ service,
                                  !.wins = IF sidecar /\ service THEN @ + 1 ELSE @]
    /\ UNCHANGED <<clock, WriteVars>>

\* processVideo lines 543-545
WriteThrow ==
    /\ mem.pc = "throw"
    /\ mem' = [mem EXCEPT !.pc = "done", !.raised = TRUE]
    /\ UNCHANGED <<files, metaIdx, clock, WriteVars>>

\* processVideo lines 547-553: getMetadata(finalUri) and the test of endTime
WriteVerify ==
    /\ mem.pc = "verify"
    /\ LET verifyMetadata == getMetadata(files, mem.uri)
       IN  mem' = IF verifyMetadata[2] # 0
                  THEN [mem EXCEPT !.pc = "done", !.returned = TRUE]
                  ELSE [mem EXCEPT !.pc = "done", !.raised = TRUE]
    /\ UNCHANGED <<files, metaIdx, clock, WriteVars>>

NextWrite == WriteStart \/ WriteAttempt \/ WriteThrow \/ WriteVerify

SpecWrite == InitWrite /\ [][NextWrite]_vars

----------------------------------------------------------------------------
(* SpecRead: the effect of VideoPlayer that loads the trim window of the    *)
(* video it is mounted on, one loadMetadata call per step, over every       *)
(* content of the metadata directory and of the video directory.            *)

\* VideoPlayer.tsx: MAX_METADATA_LOAD_ATTEMPTS
MAX_METADATA_LOAD_ATTEMPTS == 3

NoRead == [from |-> "none", w |-> <<>>]

\* one call of loadMetadata (lines 55-139): the metadata it sets, NoRead when
\* it returns false; attempts is metadataLoadAttempts.current
loadAttempt_SidecarFirst(idx, fs, videoId, uri, attempts) ==
    LET serviceMeta == getVideoMetadata(idx, videoId)
        localMeta == getMetadata(fs, uri)
    IN  IF localMeta[2] # 0
        THEN [from |-> "local", w |-> localMeta]
        ELSE IF serviceMeta # {}
        THEN [from |-> "service", w |-> (CHOOSE e \in serviceMeta : TRUE).w]
        ELSE IF attempts >= MAX_METADATA_LOAD_ATTEMPTS - 1
        THEN [from |-> "default", w |-> <<0, "MAX_SAFE_INTEGER">>]
        ELSE NoRead

loadAttempt(idx, fs, videoId, uri, attempts) ==
    LET serviceMeta == getVideoMetadata(idx, videoId)
        localMeta == getMetadata(fs, uri)
    IN  IF serviceMeta # {}
        THEN [from |-> "service", w |-> (CHOOSE e \in serviceMeta : TRUE).w]
        ELSE IF localMeta[2] # 0
        THEN [from |-> "local", w |-> localMeta]
        ELSE IF attempts >= MAX_METADATA_LOAD_ATTEMPTS - 1
        THEN [from |-> "default", w |-> <<0, "MAX_SAFE_INTEGER">>]
        ELSE NoRead

\* the video the player is mounted on and the two files that may lie next to
\* it: `${uri}.meta`, the name getMetadata reads, and `${videoId}.meta`, the
\* name processVideo writes
PlayedFile == VideoFile(1, 1)

PlayedId == 1

UriSidecar(w) ==
    [dir |-> MetaUri(Uri(PlayedFile)).dir, name |-> MetaUri(Uri(PlayedFile)).name,
     size |-> 0, born |-> 1, w |-> w]

IdSidecar(w) == SidecarFile(1, PlayedId, 0, w)

\* calls: loadMetadata calls made; attempts: metadataLoadAttempts.current
NoLoad ==
    [pc |-> "idle", id |-> 0, uri |-> PickerUri, attempts |-> 0, calls |-> 0,
     read |-> NoRead]

InitRead ==
    /\ db = InstalledDb
    /\ snap = NoTxn
    /\ fk = TRUE
    /\ isInitialized = TRUE
    /\ initPromise = 1
    /\ promiseState = [k \in {1} |-> "resolved"]
    /\ last = NoCall
    /\ IdleSetup
    /\ \E a \in {{}} \cup {{UriSidecar(w)} : w \in Windows},
          b \in {{}} \cup {{IdSidecar(w)} : w \in Windows} :
            files = {PlayedFile} \cup a \cup b
    /\ metaIdx \in {{}} \cup {{[key |-> k, w |-> w]} : k \in {0, PlayedId}, w \in Windows}
    /\ clock = 2
    /\ mem = NoLoad

ReadVars == <<db, snap, fk, isInitialized, initPromise, promiseState, last, pc, loc,
              files, metaIdx, clock>>

\* the effect of lines 54-160 runs when the player mounts: the counter is
\* reset and attemptMetadataLoad starts
Mount ==
    /\ mem.pc = "idle"
    /\ mem' = [NoLoad EXCEPT !.pc = "load", !.id = PlayedId, !.uri = Uri(PlayedFile)]
    /\ UNCHANGED ReadVars

\* attemptMetadataLoad lines 142-153: one pass of the loop
LoadAttempt ==
    /\ mem.pc = "load"
    /\ mem.attempts < MAX_METADATA_LOAD_ATTEMPTS
    /\ LET r == loadAttempt(metaIdx, files, mem.id, mem.uri, mem.attempts)
       IN  mem' = IF r # NoRead
                  THEN [mem EXCEPT !.pc = "done", !.calls = @ + 1, !.read = r]
                  ELSE [mem EXCEPT !.calls = @ + 1, !.attempts = @ + 1,
                                   !.pc = IF mem.attempts + 1 < MAX_METADATA_LOAD_ATTEMPTS
                                          THEN "wait" ELSE "done"]
    /\ UNCHANGED ReadVars

\* line 152: the delay before the next pass
LoadRetry ==
    /\ mem.pc = "wait"
    /\ mem' = [mem EXCEPT !.pc = "load"]
    /\ UNCHANGED ReadVars

NextRead == Mount \/ LoadAttempt \/ LoadRetry

SpecRead == InitRead /\ [][NextRead]_vars

----------------------------------------------------------------------------
(* SpecHook: the addVideo and updateVideo mutations of the useVideos hook,  *)
(* one awaited step at a time, two mutations in flight.  stored is the list *)
(* under the AsyncStorage key, cache the query data of ['videos'].          *)

Mutators == {1, 2}

\* the clip saved for the video a mutator adds
HookAsset(i, size) == VideoFile(i, size)

HookVideo(i) == VideoEntry(i, Uri(HookAsset(i, 1)), AnyThumb, <<0, MaxTime>>, "NULL")

\* the video a mutator passes to updateVideo
HookUpdated(i) == [HookVideo(i) EXCEPT !.endTime = 1]

\* updateVideo lines 70-72 and 78-80: the list with the video of that id replaced
ReplaceVideo(list, video) == {IF v.id = video.id THEN video ELSE v : v \in list}

\* the optimistic update of onMutate (lines 52 and 78-80)
Optimistic(list, kind, video) ==
    IF kind = "add" THEN {video} \cup list ELSE ReplaceVideo(list, video)

\* onError of both mutations (lines 56-59, 83-85): the query data after it
onError_DropsOwn(cache, m) ==
    IF m.kind = "add" THEN {v \in cache : v.id # m.video.id}
    ELSE {IF v.id = m.video.id THEN HookVideo(v.id) ELSE v : v \in cache}

onError(cache, m) == m.prev

\* swept: cleanupCache has run for this mutation; rowAtSweep: the stored list
\* held the video then; fetched: the list mutationFn read; prev: the snapshot
\* of onMutate
NoMutation ==
    [pc |-> "idle", kind |-> "none", video |-> HookVideo(1), prev |-> {}, fetched |-> {},
     swept |-> FALSE, rowAtSweep |-> FALSE, failed |-> FALSE]

InitHook ==
    /\ db = InstalledDb
    /\ snap = NoTxn
    /\ fk = TRUE
    /\ isInitialized = TRUE
    /\ initPromise = 1
    /\ promiseState = [k \in {1} |-> "resolved"]
    /\ last = NoCall
    /\ IdleSetup
    /\ \E z \in [Mutators -> 1..MaxSize] : files = {HookAsset(i, z[i]) : i \in Mutators}
    /\ metaIdx = {}
    /\ clock = MaxClock
    /\ \E S \in SUBSET {HookVideo(i) : i \in Mutators} :
        mem = [stored |-> S, cache |-> S, stale |-> FALSE,
               mut |-> [i \in Mutators |-> NoMutation]]

HookVars == <<db, snap, fk, isInitialized, initPromise, promiseState, last, pc, loc,
              metaIdx, clock>>

\* mutate(video): onMutate cancels a refetch in flight, snapshots the query
\* data and sets the optimistic list (lines 48-55, 75-82)
Mutate(i) ==
    /\ mem.mut[i].pc = "idle"
    /\ \E kind \in {"add", "update"} :
        /\ kind = "add" => \A v \in mem.cache \cup mem.stored : v.id # i
        /\ kind = "update" => \E v \in mem.cache : v.id = i
        /\ LET video == IF kind = "add" THEN HookVideo(i) ELSE HookUpdated(i)
           IN  mem' = [mem EXCEPT !.stale = FALSE,
                                  !.cache = Optimistic(@, kind, video),
                                  !.mut[i] = [NoMutation EXCEPT !.pc = "fetch", !.kind = kind,
                                                                !.video = video,
                                                                !.prev = mem.cache]]
    /\ UNCHANGED <<files, HookVars>>

\* mutationFn lines 43 and 69: fetchVideos, which may throw
FetchVideos(i) ==
    /\ mem.mut[i].pc = "fetch"
    /\ \E ok \in BOOLEAN :
        mem' = [mem EXCEPT !.mut[i].fetched = IF ok THEN mem.stored ELSE @,
                           !.mut[i].pc = IF ~ok THEN "error"
                                         ELSE IF mem.mut[i].kind = "add" THEN "cleanup"
                                         ELSE "save"]
    /\ UNCHANGED <<files, HookVars>>

\* addVideo line 45: FileManager.cleanupCache()
HookCleanup(i) ==
    /\ mem.mut[i].pc = "cleanup"
    /\ \E q \in SortedFiles(Listed(files)) :
        files' = cleanupCache(files, q, {})
    /\ mem' = [mem EXCEPT !.mut[i].pc = "save", !.mut[i].swept = TRUE,
                          !.mut[i].rowAtSweep = \E v \in mem.stored : v.id = mem.mut[i].video.id]
    /\ UNCHANGED HookVars

\* lines 46 and 73: saveVideos(updatedVideos), which may throw
SaveVideos(i) ==
    /\ mem.mut[i].pc = "save"
    /\ \E ok \in BOOLEAN :
        mem' = IF ok
               THEN [mem EXCEPT !.stored = Optimistic(mem.mut[i].fetched, mem.mut[i].kind,
                                                      mem.mut[i].video),
                                !.mut[i].pc = "settle"]
               ELSE [mem EXCEPT !.mut[i].pc = "error"]
    /\ UNCHANGED <<files, HookVars>>

\* onError lines 56-59 and 83-85
OnError(i) ==
    /\ mem.mut[i].pc = "error"
    /\ mem' = [mem EXCEPT !.cache = onError(mem.cache, mem.mut[i]),
                          !.mut[i].pc = "settle", !.mut[i].failed = TRUE]
    /\ UNCHANGED <<files, HookVars>>

\* onSettled lines 60-63 and 86-88: invalidateQueries
OnSettled(i) ==
    /\ mem.mut[i].pc = "settle"
    /\ mem' = [mem EXCEPT !.stale = TRUE, !.mut[i].pc = "done"]
    /\ UNCHANGED <<files, HookVars>>

\* the refetch of the invalidated query: queryFn = fetchVideos (lines 35-38)
Refetch ==
    /\ mem.stale
    /\ mem' = [mem EXCEPT !.stale = FALSE, !.cache = mem.stored]
    /\ UNCHANGED <<files, HookVars>>

NextHook ==
    \/ \E i \in Mutators :
        \/ Mutate(i)
        \/ FetchVideos(i)
        \/ HookCleanup(i)
        \/ SaveVideos(i)
        \/ OnError(i)
        \/ OnSettled(i)
    \/ Refetch

SpecHook == InitHook /\ [][NextHook]_vars

----------------------------------------------------------------------------
(* SpecIndex: the calls of videoService for one video id, one awaited step  *)
(* at a time, two calls in flight.  metaIdx is the metadata directory,      *)
(* mem.cache the metadataCache map.  A file operation takes effect when its *)
(* step is taken; the caller resumes in a later step.                       *)

Tasks == {1, 2}

\* calls each task makes
MaxIndexCalls == 2

IndexId == 1

\* the entries of a map or a directory without the one of the id
Without(map, id) == {e \in map : e.key # id}

\* kind: the method; arg: the window passed; buf: what the file read or the
\* merge produced; inner: getVideoMetadata was called by updateVideoMetadata
NoIndexCall ==
    [pc |-> "idle", kind |-> "none", arg |-> <<>>, buf |-> <<>>, inner |-> FALSE,
     calls |-> 0, res |-> "none"]

InitIndex ==
    /\ db = InstalledDb
    /\ snap = NoTxn
    /\ fk = TRUE
    /\ isInitialized = TRUE
    /\ initPromise = 1
    /\ promiseState = [k \in {1} |-> "resolved"]
    /\ last = NoCall
    /\ IdleSetup
    /\ files = {}
    /\ metaIdx \in {{}} \cup {{[key |-> IndexId, w |-> w]} : w \in Windows}
    /\ clock = 1
    /\ mem = [cache |-> {}, overlap |-> FALSE, resuming |-> <<>>, reordered |-> FALSE,
              task |-> [t \in Tasks |-> NoIndexCall]]

IndexVars == <<db, snap, fk, isInitialized, initPromise, promiseState, last, pc, loc,
               files, clock>>

\* resuming: the tasks whose file operation has taken effect and who have not
\* resumed yet, in the order of the effects; reordered: a task has resumed
\* before one whose operation took effect earlier
Resume(m, t) ==
    [m EXCEPT !.resuming = SelectSeq(@, LAMBDA u : u # t),
              !.reordered = @ \/ m.resuming[1] # t]

IndexReturn(c, res) == [c EXCEPT !.pc = "idle", !.res = res, !.inner = FALSE]

\* what a task does once getVideoMetadata has produced `existing` (<<>> for
\* null): return it, or go on with updateVideoMetadata lines 107-115
AfterGet(c, existing) ==
    IF ~c.inner THEN IndexReturn(c, IF existing = <<>> THEN "null" ELSE "found")
    ELSE IF existing = <<>> THEN IndexReturn(c, "err")
    ELSE [c EXCEPT !.pc = "updateWrite", !.buf = <<existing[1], c.arg[2]>>]

\* a call starts: getVideoMetadata lines 43-49 (the cache is looked at first),
\* saveVideoMetadata lines 76-87 (the cache entry is deleted),
\* updateVideoMetadata lines 104-106 (which calls getVideoMetadata), clearCache
IndexCall(t) ==
    /\ mem.task[t].pc = "idle"
    /\ mem.task[t].calls < MaxIndexCalls
    /\ \E kind \in {"get", "save", "update", "clear"}, w \in Windows :
        LET c == [NoIndexCall EXCEPT !.kind = kind, !.calls = mem.task[t].calls + 1,
                                     !.arg = IF kind \in {"save", "update"} THEN w ELSE <<>>,
                                     !.inner = (kind = "update")]
            cached == getVideoMetadata(mem.cache, IndexId)
            busy == \E u \in Tasks \ {t} : mem.task[u].pc # "idle"
        IN  /\ kind \in {"get", "clear"} => w = <<0, 1>>
            /\ mem' = [mem EXCEPT
                   !.overlap = @ \/ busy,
                   !.cache = IF kind = "save" THEN Without(@, IndexId)
                             ELSE IF kind = "clear" THEN {}
                             ELSE @,
                   !.task[t] = IF kind = "clear" THEN IndexReturn(c, "ok")
                               ELSE IF kind = "save" THEN [c EXCEPT !.pc = "saveWrite"]
                               ELSE IF cached # {}
                               THEN AfterGet(c, (CHOOSE e \in cached : TRUE).w)
                               ELSE [c EXCEPT !.pc = "getInfo"]]
    /\ UNCHANGED <<metaIdx, IndexVars>>

\* getVideoMetadata lines 54-58: getInfoAsync
GetInfo(t) ==
    /\ mem.task[t].pc = "getInfo"
    /\ mem' = [mem EXCEPT !.task[t] =
                   IF getVideoMetadata(metaIdx, IndexId) = {}
                   THEN AfterGet(@, <<>>)
                   ELSE [@ EXCEPT !.pc = "getRead"]]
    /\ UNCHANGED <<metaIdx, IndexVars>>

\* getVideoMetadata line 60: readAsStringAsync reads the file
GetRead(t) ==
    /\ mem.task[t].pc = "getRead"
    /\ mem' = IF getVideoMetadata(metaIdx, IndexId) = {}
              THEN [mem EXCEPT !.task[t] = AfterGet(@, <<>>)]
              ELSE [mem EXCEPT !.resuming = Append(@, t),
                               !.task[t] = [@ EXCEPT !.pc = "getSet",
                                                     !.buf = (CHOOSE e \in metaIdx :
                                                                  e.key = IndexId).w]]
    /\ UNCHANGED <<metaIdx, IndexVars>>

\* getVideoMetadata lines 61-66: the caller resumes, caches what was read
GetSet(t) ==
    /\ mem.task[t].pc = "getSet"
    /\ mem' = [Resume(mem, t) EXCEPT !.cache = saveVideoMetadata(@, IndexId, mem.task[t].buf),
                                     !.task[t] = AfterGet(@, mem.task[t].buf)]
    /\ UNCHANGED <<metaIdx, IndexVars>>

\* saveVideoMetadata line 89: writeAsStringAsync, which may throw (95-98)
SaveWrite(t) ==
    /\ mem.task[t].pc = "saveWrite"
    /\ \E ok \in BOOLEAN :
        /\ metaIdx' = IF ok THEN saveVideoMetadata(metaIdx, IndexId, mem.task[t].arg)
                      ELSE metaIdx
        /\ mem' = IF ok THEN [mem EXCEPT !.resuming = Append(@, t), !.task[t].pc = "saveSet"]
                  ELSE [mem EXCEPT !.task[t] = IndexReturn(@, "err")]
    /\ UNCHANGED IndexVars

\* saveVideoMetadata lines 92-94: the caller resumes
SaveSet(t) ==
    /\ mem.task[t].pc = "saveSet"
    /\ mem' = [Resume(mem, t) EXCEPT !.cache = saveVideoMetadata(@, IndexId, mem.task[t].arg),
                                     !.task[t] = IndexReturn(@, "ok")]
    /\ UNCHANGED <<metaIdx, IndexVars>>

\* updateVideoMetadata line 115: writeAsStringAsync of the merged record
UpdateWrite(t) ==
    /\ mem.task[t].pc = "updateWrite"
    /\ \E ok \in BOOLEAN :
        /\ metaIdx' = IF ok THEN saveVideoMetadata(metaIdx, IndexId, mem.task[t].buf)
                      ELSE metaIdx
        /\ mem' = IF ok THEN [mem EXCEPT !.resuming = Append(@, t), !.task[t].pc = "updateSet"]
                  ELSE [mem EXCEPT !.task[t] = IndexReturn(@, "err")]
    /\ UNCHANGED IndexVars

\* updateVideoMetadata line 118: the caller resumes
UpdateSet(t) ==
    /\ mem.task[t].pc = "updateSet"
    /\ mem' = [Resume(mem, t) EXCEPT !.cache = saveVideoMetadata(@, IndexId, mem.task[t].buf),
                                     !.task[t] = IndexReturn(@, "ok")]
    /\ UNCHANGED <<metaIdx, IndexVars>>

NextIndex ==
    \E t \in Tasks :
        \/ IndexCall(t)
        \/ GetInfo(t)
        \/ GetRead(t)
        \/ GetSet(t)
        \/ SaveWrite(t)
        \/ SaveSet(t)
        \/ UpdateWrite(t)
        \/ UpdateSet(t)

SpecIndex == InitIndex /\ [][NextIndex]_vars

----------------------------------------------------------------------------
(* SpecRetry: one call of retryOperation, one awaited step at a time.  The  *)
(* operation settles each attempt with a value or with a thrown value;      *)
(* mem.hist keeps what each attempt settled with, in order.                 *)

\* the largest maxRetries passed
MaxRetryArg == 4

\* the values the operation can resolve to
RetryValues == {1, 2, 3}

\* what one attempt settles with: a value, or a thrown value that is or is
\* not an Error and whose message does or does not contain
\* 'database table is locked'
Resolved(v) == [kind |-> "ok", val |-> v, isError |-> FALSE, locked |-> FALSE]

Thrown(isError, locked) == [kind |-> "err", val |-> 0, isError |-> isError, locked |-> locked]

Outcomes == {Resolved(v) : v \in RetryValues} \cup {Thrown(e, l) : e, l \in BOOLEAN}

\* a catch block that waits and goes round again after every error that is
\* not the last attempt's
catchDecision_RetriesAny(i, maxRetries, error) ==
    IF i = maxRetries - 1 THEN "throw" ELSE "retry"

\* the catch block of lines 50-57
catchDecision(i, maxRetries, error) ==
    IF i = maxRetries - 1
    THEN "throw"
    ELSE IF error.isError /\ error.locked
    THEN "retry"
    ELSE "throw"

NoResult == [kind |-> "none", val |-> 0, err |-> 0]

\* retryOperation(operation, maxRetries) has just been called; the call in
\* setup() passes no maxRetries and gets MaxRetries
InitRetry ==
    /\ db = InstalledDb
    /\ snap = NoTxn
    /\ fk = TRUE
    /\ isInitialized = FALSE
    /\ initPromise = 0
    /\ promiseState = [k \in {1} |-> "free"]
    /\ last = NoCall
    /\ IdleSetup
    /\ files = {}
    /\ metaIdx = {}
    /\ clock = 0
    /\ \E n \in 0..MaxRetryArg :
        mem = [maxRetries |-> n, i |-> 0, pc |-> "loop", hist |-> <<>>, res |-> NoResult]

RetryVars == <<db, snap, fk, isInitialized, initPromise, promiseState, last, pc, loc,
               files, metaIdx, clock>>

\* lines 46-48: the loop condition holds, the operation is invoked and
\* awaited; a value is returned at once
RetryAttempt ==
    /\ mem.pc = "loop"
    /\ mem.i < mem.maxRetries
    /\ \E o \in Outcomes :
        mem' = IF o.kind = "ok"
               THEN [mem EXCEPT !.hist = Append(@, o), !.pc = "done",
                                !.res = [kind |-> "return", val |-> o.val, err |-> 0]]
               ELSE [mem EXCEPT !.hist = Append(@, o), !.pc = "catch"]
    /\ UNCHANGED RetryVars

\* lines 49-57: the error of the attempt just made is rethrown or waited out
RetryCatch ==
    /\ mem.pc = "catch"
    /\ mem' = IF catchDecision(mem.i, mem.maxRetries, mem.hist[Len(mem.hist)]) = "retry"
              THEN [mem EXCEPT !.pc = "wait"]
              ELSE [mem EXCEPT !.pc = "done",
                               !.res = [kind |-> "throw", val |-> 0, err |-> Len(mem.hist)]]
    /\ UNCHANGED RetryVars

\* lines 53-54 and 46: the delay passes and the loop goes round
RetryWait ==
    /\ mem.pc = "wait"
    /\ mem' = [mem EXCEPT !.i = @ + 1, !.pc = "loop"]
    /\ UNCHANGED RetryVars

\* line 59: the loop ended without returning or throwing
RetryExhausted ==
    /\ mem.pc = "loop"
    /\ mem.i >= mem.maxRetries
    /\ mem' = [mem EXCEPT !.pc = "done", !.res = [kind |-> "throw", val |-> 0, err |-> 0]]
    /\ UNCHANGED RetryVars

NextRetry == RetryAttempt \/ RetryCatch \/ RetryWait \/ RetryExhausted

SpecRetry == InitRetry /\ [][NextRetry]_vars

\* every awaited operation settles and every delay passes
SpecRetryFair == SpecRetry /\ WF_vars(NextRetry)

----------------------------------------------------------------------------
(* SpecMemory: the handlers that create, play and delete a memory, over an  *)
(* installed store on which the root layout has run setup.                  *)

MaxMemories == 3

\* the end of the window the recorder passes to processVideo
RecordingEnd == 60

IdleMemory ==
    [pc |-> "idle", next |-> 1, id |-> 0, uri |-> PickerUri, thumbnail |-> AnyThumb,
     removed |-> FALSE, list |-> {}, cur |-> {}, saved |-> {}, failed |-> FALSE,
     raised |-> FALSE, w |-> <<>>, read |-> NoRead]

InitMemory ==
    /\ db = InstalledDb
    /\ snap = NoTxn
    /\ fk = TRUE
    /\ isInitialized = TRUE
    /\ initPromise = 1
    /\ promiseState = [k \in {1} |-> "resolved"]
    /\ last = NoCall
    /\ IdleSetup
    /\ files = {}
    /\ metaIdx = {}
    /\ clock = 1
    /\ mem = IdleMemory

\* what a handler starts from: the identifiers minted so far and the stored list
Fresh(m) == [IdleMemory EXCEPT !.next = m.next, !.list = m.list]

ServiceVars == <<snap, fk, isInitialized, initPromise, promiseState, pc, loc>>

\* CropModal.handleSave, then handleCropComplete of the add screen
CropComplete ==
    \E w \in Windows, ok \in BOOLEAN :
        LET id == mem.next
            cat == "all"
            t == generateThumbnail(files, clock, id, ok)
            s == ensureSetup(db, isInitialized, initPromise)
            r == addVideo(s.db, fk \/ s.ran, VideoEntry(id, PickerUri, t.uri, w, cat), id)
            done == t.ok /\ s.ok /\ r.ok
        IN  /\ mem.pc = "idle"
            /\ mem.next <= MaxMemories
            /\ metaIdx' = metaIdx \cup {[key |-> 0, w |-> w]}
            /\ files' = t.files
            /\ db' = IF done THEN r.db ELSE IF t.ok THEN s.db ELSE db
            /\ last' = Call("createMemory", done, id, cat)
            /\ mem' = [Fresh(mem) EXCEPT !.next = @ + 1, !.id = id, !.w = w,
                                         !.saved = IF t.ok THEN {ThumbnailFile(clock, id, 1)}
                                                   ELSE {}]
            /\ IF t.ok THEN AfterSetup(s)
                       ELSE UNCHANGED <<fk, isInitialized, initPromise, promiseState>>
            /\ UNCHANGED <<snap, setupVars, clock>>

\* VideoRecorder.handleRecordingFinished
RecordingFinished ==
    \E size \in 1..MaxSize, fails \in {0, 3}, lead \in Leads, ok \in BOOLEAN :
        LET id == mem.next
            w == <<0, RecordingEnd>>
            p == processVideo(files, metaIdx, clock, size, w, id, fails, lead)
            t == generateThumbnail(p.files, clock, id, ok)
            s == ensureSetup(db, isInitialized, initPromise)
            r == addVideo(s.db, fk \/ s.ran, VideoEntry(id, p.uri, t.uri, w, "default"), id)
            done == p.ok /\ t.ok /\ s.ok /\ r.ok
        IN  /\ mem.pc = "idle"
            /\ mem.next <= MaxMemories
            /\ metaIdx' = p.idx
            /\ files' = IF p.ok THEN t.files ELSE p.files
            /\ db' = IF done THEN r.db ELSE IF p.ok /\ t.ok THEN s.db ELSE db
            /\ last' = Call("recordingFinished", done, id, "default")
            /\ mem' = [Fresh(mem) EXCEPT !.next = @ + 1, !.id = id, !.w = w,
                                         !.saved = p.saved, !.failed = ~p.ok]
            /\ IF p.ok /\ t.ok THEN AfterSetup(s)
                               ELSE UNCHANGED <<fk, isInitialized, initPromise, promiseState>>
            /\ UNCHANGED <<snap, setupVars, clock>>

\* the player is mounted on a row of the repository
PlayVideo ==
    \E v \in db.videos :
        /\ mem.pc = "idle"
        /\ last' = Call("loadMetadata", TRUE, v.id, v.categoryId)
        /\ mem' = [Fresh(mem) EXCEPT !.id = v.id, !.w = <<v.startTime, v.endTime>>,
                                     !.read = loadMetadata(metaIdx, files, v.id, v.uri)]
        /\ UNCHANGED <<db, ServiceVars, files, metaIdx, clock>>

\* useVideoStore.deleteVideo up to its second await: the row is deleted
StoreDeleteRow ==
    \E v \in db.videos :
        LET r == deleteVideo(db, fk, v.id)
        IN  /\ mem.pc = "idle"
            /\ db' = r.db
            /\ last' = Call("deleteMemory", r.ok, v.id, v.categoryId)
            /\ mem' = [Fresh(mem) EXCEPT !.pc = IF r.ok THEN "storeFiles" ELSE "idle",
                                         !.id = v.id, !.uri = v.uri,
                                         !.thumbnail = v.thumbnail]
            /\ UNCHANGED <<ServiceVars, files, metaIdx, clock>>

\* useVideoStore.deleteVideo: FileManager.deleteVideo(videoUri, thumbnailUri)
StoreDeleteFiles ==
    /\ mem.pc = "storeFiles"
    /\ files' = DeleteUris(files, {mem.uri, mem.thumbnail})
    /\ mem' = [mem EXCEPT !.pc = "storeRefresh", !.removed = TRUE]
    /\ UNCHANGED <<db, ServiceVars, last, metaIdx, clock>>

\* useVideoStore.deleteVideo: the list is read again and the call returns
StoreRefresh ==
    /\ mem.pc = "storeRefresh"
    /\ mem' = Fresh(mem)
    /\ UNCHANGED <<db, ServiceVars, last, files, metaIdx, clock>>

\* useVideos().addVideo of a clip and a thumbnail of the asset directories
HookAddVideo ==
    /\ mem.pc = "idle"
    /\ mem.next <= MaxMemories
    /\ \E u \in {f \in files : f.name.ext = "mp4"}, t \in {f \in files : f.name.ext = "jpg"},
          q \in SortedFiles(Listed(files)) :
        /\ files' = cleanupCache(files, q, {})
        /\ last' = Call("hookAddVideo", TRUE, mem.next, "NULL")
        /\ mem' = [Fresh(mem) EXCEPT !.next = @ + 1,
                                     !.list = @ \cup {VideoEntry(mem.next, Uri(u), Uri(t),
                                                                 <<0, RecordingEnd>>, "NULL")}]
        /\ UNCHANGED <<db, ServiceVars, metaIdx, clock>>

\* useVideos().deleteVideo up to saveVideos: the files are deleted
HookDeleteFiles ==
    \E v \in mem.list :
        /\ mem.pc = "idle"
        /\ files' = DeleteUris(files, {v.uri, v.thumbnail})
        /\ last' = Call("hookDeleteVideo", TRUE, v.id, "NULL")
        /\ mem' = [Fresh(mem) EXCEPT !.pc = "hookSave", !.id = v.id, !.uri = v.uri,
                                     !.thumbnail = v.thumbnail, !.cur = mem.list,
                                     !.removed = TRUE]
        /\ UNCHANGED <<db, ServiceVars, metaIdx, clock>>

\* useVideos().deleteVideo: saveVideos(updatedVideos)
HookSaveList ==
    /\ mem.pc = "hookSave"
    /\ mem' = [Fresh(mem) EXCEPT !.list = {v \in mem.cur : v.id # mem.id}]
    /\ UNCHANGED <<db, ServiceVars, last, files, metaIdx, clock>>

\* handleDeleteSingleDiary of the settings screen: the row only
DeleteDiary ==
    \E v \in db.videos :
        LET r == deleteVideo(db, fk, v.id)
        IN  /\ mem.pc = "idle"
            /\ db' = r.db
            /\ last' = Call("deleteDiary", r.ok, v.id, v.categoryId)
            /\ mem' = Fresh(mem)
            /\ UNCHANGED <<ServiceVars, files, metaIdx, clock>>

\* handleClearDatabase of the settings screen
ClearAll ==
    LET s == clearDatabase(db)
    IN  /\ mem.pc = "idle"
        /\ db.videos # {}
        /\ db' = s.db
        /\ last' = Call("clearAll", s.ok, 0, "NULL")
        /\ mem' = Fresh(mem)
        /\ AfterSetup(s)
        /\ UNCHANGED <<snap, setupVars, files, metaIdx, clock>>

\* time passes
Tick ==
    /\ mem.pc = "idle"
    /\ clock < MaxClock
    /\ clock' = clock + 1
    /\ UNCHANGED <<db, ServiceVars, last, files, metaIdx, mem>>

\* the app is killed inside a handler
Crash ==
    /\ mem.pc # "idle"
    /\ mem' = [mem EXCEPT !.pc = "idle"]
    /\ UNCHANGED <<db, ServiceVars, last, files, metaIdx, clock>>

NextMemory ==
    \/ CropComplete
    \/ RecordingFinished
    \/ PlayVideo
    \/ StoreDeleteRow
    \/ StoreDeleteFiles
    \/ StoreRefresh
    \/ HookAddVideo
    \/ HookDeleteFiles
    \/ HookSaveList
    \/ DeleteDiary
    \/ ClearAll
    \/ Tick
    \/ Crash

SpecMemory == InitMemory /\ [][NextMemory]_vars

----------------------------------------------------------------------------
(* Claims on the repository (SpecRepo) *)

\* C5: deleteCategory(c), for a category c other than the sentinel, returns
\* after moving exactly the videos of c to "all" and removing exactly the
\* category row c, every other row left alone; afterwards getVideos("all")
\* returns the moved videos with categoryId "all" and getVideos(c) is empty.
C5_DeleteCategoryReassigns ==
    [][(last'.op = "deleteCategory" /\ last'.cat # "all" /\ last'.cat \in db.categories) =>
        LET c == last'.cat
            moved == {[v EXCEPT !.categoryId = "all"] : v \in {u \in db.videos : u.categoryId = c}}
            kept == {v \in db.videos : v.categoryId # c}
        IN  /\ last'.ok
            /\ db'.videos = moved \cup kept
            /\ db'.categories = db.categories \ {c}
            /\ db'.core = db.core
            /\ db'.tables = db.tables
            /\ db'.version = db.version
            /\ moved \subseteq getVideos(db', isInitialized', initPromise', "all")
            /\ getVideos(db', isInitialized', initPromise', c) = {}
      ]_vars

\* C5, on the stores that still hold the sentinel: the same statement, for the
\* calls made while the category "all" exists
C5_ReassignsWhileSentinelExists ==
    [][(/\ last'.op = "deleteCategory"
        /\ last'.cat # "all"
        /\ last'.cat \in db.categories
        /\ "all" \in db.categories) =>
        LET c == last'.cat
            moved == {[v EXCEPT !.categoryId = "all"] : v \in {u \in db.videos : u.categoryId = c}}
            kept == {v \in db.videos : v.categoryId # c}
        IN  /\ last'.ok
            /\ db'.videos = moved \cup kept
            /\ db'.categories = db.categories \ {c}
            /\ db'.core = db.core
            /\ db'.tables = db.tables
            /\ db'.version = db.version
            /\ moved \subseteq getVideos(db', isInitialized', initPromise', "all")
            /\ getVideos(db', isInitialized', initPromise', c) = {}
      ]_vars

\* C5 witness: deleteCategory("travel") has just succeeded on a store in which
\* videos referenced "travel"; they are now filed under "all"
C5_Witness ==
    /\ last.op = "deleteCategory"
    /\ last.ok
    /\ last.cat = "travel"
    /\ last.id > 0
    /\ \E v \in db.videos : v.categoryId = "all"

\* C6: every Video row's categoryId is the id of an existing Category row
\* (neither dangling nor NULL)
C6_CategoryReferencesExist ==
    \A v \in db.videos : v.categoryId \in db.categories

\* C7: the sentinel category "all" exists whenever the schema does, and
\* deleteCategory("all") is rejected with an error
C7_SentinelNeverDeleted ==
    /\ "categories" \in db.tables => "all" \in db.categories
    /\ last.op = "deleteCategory" /\ last.cat = "all" => ~last.ok

\* C8: no CoreMemory row exists whose videoId is not the id of a Video row
C8_CoreMemoryHasVideo ==
    db.core \subseteq VideoIdsOf(db)

----------------------------------------------------------------------------
(* Claims on setup (SpecSetup) *)

\* C3: when callers invoke setup() concurrently, the schema creation/reset
\* body is run by at most one of them (the other awaits the same
\* initialization), no call raises, and once every caller has returned the
\* store passes verifyDatabaseHealth.
C3_ConcurrentSetupShared ==
    (\A p \in Callers : ~loc[p].fault) =>
        /\ Cardinality({p \in Callers : loc[p].own # 0}) <= 1
        /\ \A p \in Callers : loc[p].res # "err"
        /\ (\A p \in Callers : pc[p] = "idle" /\ loc[p].res = "ok") =>
               verifyDatabaseHealth(db)

----------------------------------------------------------------------------
(* Claims on the asset cache (SpecCache) *)

\* C10: when the total size exceeds the budget, cleanupCache evicts exactly
\* the shortest oldest-first prefix of the files of both directories: no file
\* that remains was created before a file that was evicted, the last eviction
\* was needed, and afterwards the total is within the budget or nothing remains.
C10_EvictsOldestPrefix ==
    (mem.op = "cleanupCache" /\ mem.stuck = {}
        /\ getCacheSize(mem.before) > MAX_CACHE_SIZE) =>
        LET evicted == mem.before \ files
        IN  /\ files \subseteq mem.before
            /\ \A e \in evicted, r \in files : ~(r.born < e.born)
            /\ \E e \in evicted : getCacheSize(files) + e.size > MAX_CACHE_SIZE
            /\ getCacheSize(files) <= MAX_CACHE_SIZE \/ Listed(files) = {}

----------------------------------------------------------------------------
(* Claims on the memory handlers (SpecMemory) *)

\* C1: the player, mounted on a memory the add screen created with the trim
\* window (start, end), reads exactly that window from the metadata stored
\* under the video's id or from the sidecar at uri + ".meta", never the
\* permissive default window.
C1_TrimWindowRoundTrip ==
    last.op = "loadMetadata" =>
        /\ mem.read.from # "default"
        /\ mem.read.w = mem.w

\* C2: whenever no handler is running, every Video row of the repository
\* references a video file and a thumbnail file that exist in the asset
\* directories.
C2_RowsReferenceExistingFiles ==
    mem.pc = "idle" =>
        \A v \in db.videos : Exists(files, v.uri) /\ Exists(files, v.thumbnail)

\* C4: when the metadata write of a create-memory call fails on all three
\* attempts, or its verification fails, the call raises, none of the files
\* the call saved remains in the asset directories, and no Video row was added.
C4_FailedCreateLeavesNothing ==
    (last.op = "recordingFinished" /\ mem.failed) =>
        /\ mem.raised
        /\ mem.saved \cap files = {}
        /\ last.id \notin VideoIdsOf(db)

\* C9: in every delete path, once the files of a video have been removed, the
\* row of that video is already gone, also when the app is killed in between.
C9_RowDeletedBeforeFiles ==
    mem.removed => \A v \in db.videos \cup mem.list : v.id # mem.id

\* C11: whenever the total size of the two directories is within the budget,
\* a call of cleanupCache deletes no file and leaves both directories as they
\* were; in particular the call that follows a sweep whose deletions all
\* succeeded deletes nothing.
C11_NoSweepUnderBudget ==
    mem.op = "cleanupCache" =>
        /\ getCacheSize(mem.before) <= MAX_CACHE_SIZE => files = mem.before
        /\ mem.prior = "swept" => files = mem.before

\* a second call right after a sweep that deleted files, with files left
C11_Witness ==
    /\ mem.op = "cleanupCache"
    /\ mem.prior = "swept"
    /\ Listed(mem.before) # {}
    /\ files = mem.before

\* C12: a successful addVideo adds exactly one row and changes no row that
\* was there: the id it returns is the id of the new row and was not in the
\* table before, and when the id it was given is already taken the call
\* returns a different id and fails only for a reason other than the collision
\* (the category reference or the schema).
C12_AddVideoMintsFreshId ==
    [][last'.op = "addVideo" =>
        LET taken == last'.arg \in VideoIdsOf(db)
            cat   == IF last'.cat = "NULL" THEN "all" ELSE last'.cat
        IN  /\ last'.ok =>
                /\ db.videos \subseteq db'.videos
                /\ Cardinality(db'.videos) = Cardinality(db.videos) + 1
                /\ \E v \in db'.videos \ db.videos : v.id = last'.id
                /\ last'.id \notin VideoIdsOf(db)
                /\ taken => last'.id # last'.arg
                /\ ~taken => last'.id = last'.arg
            /\ (taken /\ ~last'.ok) => ~CategoryRefOk(db', fk', cat)]_vars

\* an addVideo with an id that is already in the table has succeeded
C12_Witness ==
    /\ last.op = "addVideo"
    /\ last.ok
    /\ last.id # last.arg
    /\ {last.id, last.arg} \subseteq VideoIdsOf(db)

\* what a call that returned normally has written, read after both calls ended
EffectPresent(p) ==
    CASE loc[p].op = "addVideo" -> loc[p].ret \in VideoIdsOf(db)
      [] loc[p].op = "deleteVideo" -> loc[p].id \notin VideoIdsOf(db)
      [] loc[p].op = "updateVideo" ->
             \A v \in db.videos : v.id = loc[p].id => v.categoryId = loc[p].cat
      [] loc[p].op = "deleteCategory" ->
             /\ loc[p].cat \notin db.categories
             /\ \A v \in db.videos : v.categoryId # loc[p].cat
      [] OTHER -> TRUE

\* C13: when the calls of two callers interleave on the shared connection,
\* every mutating call that returned normally has its effect in the store once
\* both calls have ended, and a call whose effect is missing threw.
C13_WritesGuaranteedOrReported ==
    (\A p \in Callers : pc[p] = "done") =>
        \A p \in Callers : loc[p].res = "ok" => EffectPresent(p)

MutatingOps ==
    {"addVideo", "deleteVideo", "updateVideo", "addCoreMemory", "deleteCoreMemory",
     "addCategory", "deleteCategory"}

\* C14: a mutating repository statement that meets a locked store is attempted
\* again, up to 3 attempts in all, and the caller sees the locked error only
\* after the third locked attempt.
C14_MutationsRetryWhenLocked ==
    (last.op \in MutatingOps /\ mem.was > 0) =>
        /\ mem.attempts = (IF mem.was < MaxRetries THEN mem.was + 1 ELSE MaxRetries)
        /\ mem.lockErr => mem.attempts = MaxRetries

\* the only retried step: the schema check of setup() met a locked store and
\* was attempted again
C14_SetupRetries ==
    (last.op = "setup" /\ mem.was > 0) =>
        /\ mem.attempts = (IF mem.was < MaxRetries THEN mem.was + 1 ELSE MaxRetries)
        /\ mem.lockErr => mem.attempts = MaxRetries

\* C15: getVideos never raises and never retries: when setup or the query
\* fails it returns the empty list, it has run its SELECT at most once, and the
\* store is as it was when the call was made.
C15_ReadsReturnEmptyAndLeaveStore ==
    \A p \in Callers :
        (pc[p] = "idle" /\ loc[p].entry = "getVideos" /\ loc[p].calls > 0) =>
            /\ loc[p].out \in {"list", "caught"}
            /\ loc[p].queries <= 1
            /\ loc[p].out = "caught" => (loc[p].rows = {} /\ db = loc[p].at)

\* the same without the store: getVideos returns a list, the empty one on
\* failure, after at most one SELECT
C15_ReadsReturnEmpty ==
    \A p \in Callers :
        (pc[p] = "idle" /\ loc[p].entry = "getVideos" /\ loc[p].calls > 0) =>
            /\ loc[p].out \in {"list", "caught"}
            /\ loc[p].queries <= 1
            /\ loc[p].out = "caught" => loc[p].rows = {}

\* C16: processVideo makes at most 3 attempts of the combined sidecar and
\* indexed-store write and none after the first on which both succeed; it
\* raises when all 3 fail and when the read-back shows no endTime, and it
\* returns normally only if the read-back shows the window it stored.
C16_MetadataWriteBounded ==
    /\ mem.tries <= MaxAttempts
    /\ mem.wins <= 1
    /\ mem.wins = 1 => mem.both
    /\ mem.pc = "done" =>
        /\ mem.raised # mem.returned
        /\ (mem.copied /\ mem.wins = 0) => (mem.raised /\ mem.tries = MaxAttempts)
        /\ getMetadata(files, mem.uri)[2] = 0 => mem.raised
        /\ mem.returned => (mem.wins = 1 /\ getMetadata(files, mem.uri) = mem.w)

\* the writes succeeded on the second attempt, no third was made, and the
\* call raised on the read-back
C16_Witness ==
    /\ mem.pc = "done"
    /\ mem.tries = 2
    /\ mem.wins = 1
    /\ mem.raised

\* all three attempts failed and the call raised
C16_WitnessExhausted ==
    /\ mem.pc = "done"
    /\ mem.tries = MaxAttempts
    /\ mem.wins = 0
    /\ mem.raised

\* C17: the metadata read of the player returns the record of the indexed
\* store whenever one exists for the asset id, otherwise the window of the
\* sidecar (asset path + ".meta") whenever that file exists, otherwise the
\* default window (0, unbounded); it always ends with a window, never takes
\* the sidecar over an indexed record, and makes at most three attempts.
C17_ReadPrefersIndexThenSidecar ==
    /\ mem.calls <= MAX_METADATA_LOAD_ATTEMPTS
    /\ mem.pc = "done" =>
        LET serviceMeta == getVideoMetadata(metaIdx, mem.id)
            sidecar == {f \in files : Uri(f) = MetaUri(mem.uri)}
        IN  /\ mem.read # NoRead
            /\ mem.read = loadMetadata(metaIdx, files, mem.id, mem.uri)
            /\ serviceMeta # {} =>
                mem.read.from = "service" /\ \E e \in serviceMeta : mem.read.w = e.w
            /\ (serviceMeta = {} /\ sidecar # {}) =>
                mem.read.from = "local" /\ \E f \in sidecar : mem.read.w = f.w
            /\ (serviceMeta = {} /\ sidecar = {}) =>
                mem.read = [from |-> "default", w |-> <<0, "MAX_SAFE_INTEGER">>]

\* a read that found both an indexed record and a sidecar with another window
C17_Witness ==
    /\ mem.pc = "done"
    /\ \E e \in getVideoMetadata(metaIdx, mem.id) :
        \E f \in files : Uri(f) = MetaUri(mem.uri) /\ f.w # e.w /\ mem.read.w = e.w

\* a read that fell back to the sidecar
C17_WitnessSidecar ==
    mem.pc = "done" /\ mem.read.from = "local" /\ mem.calls = 1

\* a read that ended with the default on its third attempt
C17_WitnessDefault ==
    mem.pc = "done" /\ mem.read.from = "default" /\ mem.calls = MAX_METADATA_LOAD_ATTEMPTS


\* C18: when the initialization started by a setup() call fails, or the health
\* verification after schema creation or migration answers false, that call
\* raises an error, _isInitialized is false and _initializationPromise is
\* cleared; a setup() call made in that state starts a fresh initialization
\* instead of returning or awaiting the failed one.
C18_FailedSetupStartsClean ==
    [][\A p \in Callers :
        /\ (pc[p] = "finalCheck" /\ pc'[p] # "finalCheck" /\ ~verifyDatabaseHealth(db)) =>
            promiseState'[loc[p].own] = "rejected"
        /\ (loc[p].own # 0 /\ promiseState'[loc[p].own] = "rejected") =>
            /\ pc'[p] = "idle"
            /\ loc'[p].res = "err"
            /\ ~isInitialized'
            /\ initPromise' = 0
        /\ (pc[p] = "idle" /\ pc'[p] # "idle" /\ ~isInitialized /\ initPromise = 0) =>
            /\ pc'[p] = "pragma"
            /\ promiseState[loc'[p].own] = "free"
            /\ promiseState'[loc'[p].own] = "pending"
            /\ initPromise' = loc'[p].own]_vars

\* a caller whose setup() raised and left the store short of a table
C18_Witness ==
    \E p \in Callers :
        /\ pc[p] = "idle"
        /\ loc[p].res = "err"
        /\ ~verifyDatabaseHealth(db)
        /\ ~isInitialized
        /\ initPromise = 0

\* a caller whose setup() failed and whose next setup() started afresh
C18_WitnessFresh ==
    \E p \in Callers :
        /\ pc[p] = "pragma"
        /\ loc[p].prev = "err"
        /\ loc[p].waits = 0
        /\ initPromise = loc[p].own


\* C19: schema creation and each migration are all-or-nothing: when a
\* statement of createInitialSchema or of handleMigration fails, the tables,
\* the seeded rows and the version marker are as they were before the step
\* started: no table is left from a failed creation, and no column `key` is
\* left added while the version marker has not advanced.
C19_SchemaStepsAllOrNothing ==
    \A p \in Callers :
        (pc[p] = "idle" /\ loc[p].res = "err") =>
            /\ loc[p].failed = "create" =>
                db.tables = {} /\ db.version = 0 /\ db.categories = {}
            /\ loc[p].failed = "migrate" => ~(db.key /\ db.version < 2)

\* the half of C19 the code keeps: a failed createInitialSchema is rolled back
C19_CreationRolledBack ==
    \A p \in Callers :
        (pc[p] = "idle" /\ loc[p].failed = "create") =>
            db.tables = {} /\ db.version = 0 /\ db.categories = {} /\ ~snap.open

\* C20: reset drops the tables only after verifyDatabaseHealth answered
\* false, and never silently while video or core memory rows exist: a call
\* during which setup() dropped tables that held such rows ends with an error
\* the caller sees.
C20_ResetOfUserRowsIsSignalled ==
    \A p \in Callers :
        (pc[p] = "idle" /\ loc[p].dropped) =>
            loc[p].entry = "setup" /\ loc[p].res = "err"

\* the first half of C20: tables are dropped only on a store whose health
\* check answered false
C20_ResetOnlyAfterFailedCheck ==
    [][\A p \in Callers :
        (pc'[p] = "resetBegin" /\ pc[p] # "resetBegin") => pc[p] = "health"]_vars


\* C21: after clearAll has completed successfully the schema is healthy at the
\* current version with exactly the default categories and no video or core
\* memory rows, and both asset directories have been wiped: no asset file
\* saved before the call remains.
C21_ClearAllWipesStoreAndAssets ==
    (last.op = "clearAll" /\ last.ok) =>
        /\ verifyDatabaseHealth(db)
        /\ db.version = CURRENT_DB_VERSION
        /\ db.categories = DefaultCategories
        /\ db.videos = {}
        /\ db.core = {}
        /\ {f \in files : f.dir \in {VIDEO_DIR, THUMBNAIL_DIR}} = {}

\* the half of C21 the code keeps: the store after a successful clearAll
C21_ClearAllResetsStore ==
    (last.op = "clearAll" /\ last.ok) =>
        /\ verifyDatabaseHealth(db)
        /\ db.version = CURRENT_DB_VERSION
        /\ db.categories = DefaultCategories
        /\ db.videos = {}
        /\ db.core = {}

\* C22: in every add-memory path cache eviction is triggered only after the
\* row of the newly saved asset has been committed: cleanupCache never runs
\* between the save of an asset and the commit of its owning row.
C22_EvictionAfterRowCommitted ==
    \A i \in Mutators : mem.mut[i].swept => mem.mut[i].rowAtSweep

\* what the ordering is there to protect: the clip of a video whose addVideo
\* has stored its row still exists (violated as well: the sweep of the same
\* addVideo can evict it before the row is stored)
C22_OwnAssetEvicted ==
    \A i \in Mutators :
        (mem.mut[i].kind = "add" /\ mem.mut[i].pc = "done" /\ ~mem.mut[i].failed) =>
            Exists(files, mem.mut[i].video.uri)

\* C30: after an addVideo or updateVideo mutation of the hook has failed, the
\* cached list is the list as it would be had that mutation never been
\* issued, also when another mutation started or completed between its
\* snapshot and its onError: the rollback discards no other mutation's video.
C30_RollbackKeepsOtherMutations ==
    [][\A i \in Mutators :
        (mem.mut[i].pc = "error" /\ mem'.mut[i].pc = "settle") =>
            mem'.cache = onError_DropsOwn(mem.cache, mem.mut[i])]_vars

\* the rollback of a mutation that ran alone restores the list
C30_RollbackAlone ==
    [][\A i \in Mutators :
        (/\ mem.mut[i].pc = "error"
         /\ mem'.mut[i].pc = "settle"
         /\ \A j \in Mutators \ {i} : mem.mut[j].pc = "idle") =>
            mem'.cache = onError_DropsOwn(mem.cache, mem.mut[i])]_vars

\* C23: every mutating repository operation completes ensureSetup before its
\* first statement: the call leaves the service as ensureSetup leaves it
\* (initialized, foreign keys switched on by a setup that ran), and when
\* ensureSetup fails the operation fails without having changed a row.
C23_MutationsEnsureSetup ==
    [][last'.op \in MutatingOps =>
        LET s == ensureSetup(db, isInitialized, initPromise)
        IN  /\ isInitialized' = s.isInitialized
            /\ fk' = (fk \/ s.ran)
            /\ ~s.ok => ~last'.ok]_vars

\* the one mutating operation that does call ensureSetup
C23_AddVideoEnsuresSetup ==
    [][last'.op = "addVideo" =>
        LET s == ensureSetup(db, isInitialized, initPromise)
        IN  /\ isInitialized' = s.isInitialized
            /\ fk' = (fk \/ s.ran)
            /\ ~s.ok => ~last'.ok]_vars

\* C24: metadata cache coherence: once the interleaved getVideoMetadata,
\* saveVideoMetadata, updateVideoMetadata and clearCache calls for an id have
\* all completed, a cache entry for the id, if there is one, equals the
\* record in the id's metadata file; and clearCache leaves the cache empty.
C24_CacheMatchesFile ==
    [][/\ (\A t \in Tasks : mem'.task[t].pc = "idle") =>
            \A e \in getVideoMetadata(mem'.cache, IndexId) : e \in metaIdx'
       /\ \A t \in Tasks :
            (mem'.task[t].calls # mem.task[t].calls /\ mem'.task[t].kind = "clear") =>
                mem'.cache = {}]_vars

\* calls that never overlap leave the cache coherent
C24_CoherentWithoutOverlap ==
    ((\A t \in Tasks : mem.task[t].pc = "idle") /\ ~mem.overlap) =>
        \A e \in getVideoMetadata(mem.cache, IndexId) : e \in metaIdx

\* calls whose file operations resume in the order in which they took effect
\* leave the cache coherent
C24_CoherentInOrder ==
    ((\A t \in Tasks : mem.task[t].pc = "idle") /\ ~mem.reordered) =>
        \A e \in getVideoMetadata(mem.cache, IndexId) : e \in metaIdx

\* C25: every save of the asset store stores the source under a new name: the
\* reference returned differs from the reference of every file already in
\* the directory, so no save overwrites an existing asset, even when two
\* saves happen at the same clock instant.
C25_SaveUsesNewName ==
    [][(last'.op = "recordingFinished" /\ mem'.next # mem.next) =>
        \A g \in mem'.saved : \A f \in files : Uri(f) # Uri(g)]_vars

\* saves made at different clock instants do get different names
C25_NewNameAtNewInstant ==
    [][(last'.op = "recordingFinished" /\ mem'.next # mem.next) =>
        \A g \in mem'.saved : \A f \in files : f.born # clock => Uri(f) # Uri(g)]_vars

\* C26: setup() is idempotent when repeated sequentially: a call made after a
\* successful initialization, while the schema is healthy, performs no schema
\* creation, migration or reset and leaves every row and the version marker
\* unchanged.
C26_RepeatedSetupIdempotent ==
    [][(last'.op = "setup" /\ isInitialized /\ verifyDatabaseHealth(db)) =>
        /\ last'.ok
        /\ last'.arg = 0
        /\ db' = db
        /\ isInitialized'
        /\ fk' = fk]_vars

\* a repeated setup() that returned without running over a store with rows
C26_Witness ==
    /\ last.op = "setup"
    /\ last.ok
    /\ last.arg = 0
    /\ isInitialized
    /\ db.videos # {}
    /\ db.core # {}

\* C27: whenever both the sidecar write and the indexed-store write of some
\* attempt of processVideo succeed, processVideo returns without raising, and
\* afterwards the sidecar at the stored asset reference + ".meta" and the
\* indexed record of the video id both hold the written window.
C27_BothWritesMeanSuccess ==
    (mem.pc = "done" /\ mem.wins > 0) =>
        /\ mem.returned
        /\ ~mem.raised
        /\ \E f \in files : Uri(f) = MetaUri(mem.uri) /\ f.w = mem.w
        /\ [key |-> mem.id, w |-> mem.w] \in metaIdx

\* the part of C27 the code keeps: the indexed record holds the written window
C27_IndexHoldsWindow ==
    (mem.pc = "done" /\ mem.wins > 0) => [key |-> mem.id, w |-> mem.w] \in metaIdx

\* C28: the cleanup step of generateThumbnail, run on every call, deletes
\* only stale temporary thumbnails: it never deletes a thumbnail file that an
\* existing video row references, however long ago it was created.
C28_CleanupSparesReferencedThumbnails ==
    [][(last'.op = "createMemory" /\ mem'.next # mem.next) =>
        \A v \in db.videos : Exists(files, v.thumbnail) => Exists(files', v.thumbnail)]_vars

\* thumbnails no older than a day survive the cleanup
C28_CleanupSparesRecentThumbnails ==
    [][(last'.op = "createMemory" /\ mem'.next # mem.next) =>
        \A f \in files :
            (f.dir = THUMBNAIL_DIR /\ clock - ParseIntName(f) <= DayTicks) => f \in files']_vars

\* C29: retryOperation invokes its operation at most maxRetries times and
\* always terminates: every attempt before the last one made failed with an
\* Error whose message contains 'database table is locked', a returned value
\* is the value of the first attempt that succeeded, a raised error is the
\* error of the last attempt made, no attempt follows another kind of error,
\* and the call reaches its end.
C29_RetryOperationBoundedAndTerminates ==
    /\ [](/\ Len(mem.hist) <= mem.maxRetries
          /\ \A k \in 1..(Len(mem.hist) - 1) :
                mem.hist[k].kind = "err" /\ mem.hist[k].isError /\ mem.hist[k].locked
          /\ mem.pc = "wait" => Len(mem.hist) < mem.maxRetries
          /\ mem.res.kind = "return" =>
                /\ mem.hist[Len(mem.hist)].kind = "ok"
                /\ mem.res.val = mem.hist[Len(mem.hist)].val
          /\ (mem.pc = "done" /\ Len(mem.hist) > 0 /\ mem.hist[Len(mem.hist)].kind = "err") =>
                mem.res.kind = "throw" /\ mem.res.err = Len(mem.hist))
    /\ <>(mem.pc = "done")

\* the default call succeeded on its third attempt, after two locked errors
C29_Witness ==
    /\ mem.pc = "done"
    /\ mem.maxRetries = MaxRetries
    /\ Len(mem.hist) = MaxRetries
    /\ mem.res.kind = "return"

\* the default call gave up after three locked errors and raised the third
C29_WitnessGaveUp ==
    /\ mem.pc = "done"
    /\ mem.maxRetries = MaxRetries
    /\ Len(mem.hist) = MaxRetries
    /\ mem.res = [kind |-> "throw", val |-> 0, err |-> MaxRetries]

============================================================================
